---------------------------- MODULE Spec2Model ----------------------------
(***************************************************************************)
(* A model of the artifact discovery engine of hanjos/nexus:               *)
(*   - artifactSet and Artifact.hash                  (src/artifact.go)    *)
(*   - concurrentArtifactSearch                       (src/artifact.go)    *)
(*   - fetchArtifactsWhere, filterPoms, has,                               *)
(*     extractArtifactsFrom                           (src/nexus.go)       *)
(*                                                                         *)
(* Go strings are sequences of one-character strings, so that string       *)
(* concatenation (Artifact.hash) and strconv.Itoa are computed, not        *)
(* assumed.  A Go (value, error) pair is a record with the fields          *)
(* artifacts, nilList and err; err = NoErr stands for a nil error.         *)
(***************************************************************************)
EXTENDS Integers, Sequences, FiniteSets, TLC

VARIABLES
    layer,      \* which component the run exercises: "set", "crawl", "fan",
                \* "nexus", "fetch" or "search"
    \* ---- artifactSet under a sequence of add calls
    set,        \* the artifactSet: [data, hashMap]
    added,      \* history: the batches passed to add so far, in order
    \* ---- one fetchArtifactsWhere call (a crawl)
    cpc,        \* position of the crawl: "loop", "fetch", "done"
    filter,     \* the filter map (a function from keys to strings)
    from,       \* local variable from
    offset,     \* local variable offset
    started,    \* local variable started
    artifacts,  \* local variable artifacts (an artifactSet)
    cret,       \* the crawl's return value, once cpc = "done"
    sent,       \* history: the value of filter at each fetch
    pages,      \* history: the payload decoded from each successful fetch
    kept,       \* history: what filterPoms returned for each page
    failure,    \* history: the error of the fetch that failed, if one did
    \* ---- one concurrentArtifactSearch call (a fan-out)
    data,       \* the key list
    outcome,    \* outcome[k]: what query returns for the k-th task
    mpc,        \* position of the calling goroutine: "spawn", "reduce", "done"
    spawned,    \* number of go statements executed
    wpc,        \* wpc[k]: position of the k-th task
    calls,      \* history: the argument of every query call, in call order
    i,          \* the reducer's loop counter
    result,     \* the reducer's artifactSet
    recvd,      \* history: the tasks whose completion the reducer received
    fret,       \* the fan-out's return value, once mpc = "done"
    \* ---- one Artifacts call with every call and goroutine below it
    world,      \* the Nexus instance: repositories, directories, GAV groups
    frames,     \* frames[f]: the call with path f; the k-th task of a
                \* fan-out in call f runs the call Append(f, k)
    \* ---- one fetch call, and cleanSlashes on the client's URL
    host,       \* nexus.Url
    path,       \* argument path
    query,      \* argument query (a function from keys to strings)
    fpc,        \* position of fetch: "build", "do", "done"
    cleaned,    \* history: what cleanSlashes returned for host, and then for
                \* the URL it had returned
    fullUrl,    \* what BuildFullURL returned: [url, err]
    response,   \* the response HttpClient.Do returned, if it returned one
    fres,       \* what fetch returned, once fpc = "done": [response, err]
    \* ---- Parameters() of one search criteria and the call Artifacts makes
    criteria,   \* the criteria
    spc,        \* "criteria", "params", "routed"
    produced,   \* what criteria.Parameters() returned
    routed      \* the function Artifacts calls for params

setVars   == <<set, added>>
crawlVars ==
    <<cpc, filter, from, offset, started, artifacts, cret, sent, pages, kept,
      failure>>
fanVars   == <<data, outcome, mpc, spawned, wpc, calls, i, result, recvd, fret>>
nexusVars == <<world, frames>>
fetchVars == <<host, path, query, fpc, cleaned, fullUrl, response, fres>>
searchVars == <<criteria, spc, produced, routed>>
prepVars  == <<fetchVars, searchVars>>
vars      == <<layer, setVars, crawlVars, fanVars, nexusVars, prepVars>>

----------------------------------------------------------------------------
(* Bounds of the model *)

\* add calls in one run of the set layer
MaxAdds == 3
\* artifacts in one batch passed to add
MaxBatch == 2
\* fetches in one crawl: the server answers the last one with an empty page
MaxFetches == 3
\* GAV groups in one page the server builds from Groups
MaxGroups == 2
\* keys in the list passed to concurrentArtifactSearch
MaxHostLen == 6
MaxKeys == 3
MaxNesting == 2
\* GAV groups the search service puts in one page of the nexus layer
PageSize == 1

----------------------------------------------------------------------------
(* Strings and values *)

\* a Go error value; NoErr is the nil error
Error(kind, origin) == [kind |-> kind, origin |-> origin]
NoErr == Error("nil", 0)

RECURSIVE Join(_)
\* concatenation of a sequence of strings: Go's s1 + s2 + ...
Join(ss) == IF ss = <<>> THEN <<>> ELSE Head(ss) \o Join(Tail(ss))

RECURSIVE SeqsUpTo(_, _)
\* all sequences over S of length at most n
SeqsUpTo(S, n) ==
    IF n = 0 THEN {<<>>}
    ELSE LET shorter == SeqsUpTo(S, n - 1)
         IN  shorter \cup {Append(s, x) : s \in shorter, x \in S}

\* the elements of a sequence
Range(s) == {s[k] : k \in 1..Len(s)}

----------------------------------------------------------------------------
(* Artifact and artifactSet: src/artifact.go *)

Artifact(g, a, v, c, e, r) ==
    [GroupID |-> g, ArtifactID |-> a, Version |-> v,
     Classifier |-> c, Extension |-> e, RepositoryID |-> r]

hash(a) ==
    Join(<<a.GroupID, <<":">>, a.ArtifactID, <<":">>, a.Version, <<":">>,
           a.Extension, <<":">>, a.Classifier, <<"@">>, a.RepositoryID>>)

newArtifactSet == [data |-> <<>>, hashMap |-> {}]

RECURSIVE addAlwaysAppends(_, _)
addAlwaysAppends(s, batch) ==
    IF batch = <<>> THEN s
    ELSE LET artifact == Head(batch)
             h        == hash(artifact)
         IN  addAlwaysAppends([data    |-> Append(s.data, artifact),
                               hashMap |-> s.hashMap \cup {h}],
                              Tail(batch))

RECURSIVE add(_, _)
add(s, batch) ==
    IF batch = <<>> THEN s
    ELSE LET artifact == Head(batch)
             h        == hash(artifact)
             contains == h \in s.hashMap
         IN  add([data    |-> IF ~contains THEN Append(s.data, artifact)
                                           ELSE s.data,
                  hashMap |-> s.hashMap \cup {h}],
                 Tail(batch))

----------------------------------------------------------------------------
(* The artifacts the set layer draws from.  colonG and colonA differ in    *)
(* two fields and have the same hash; jarA and pomA differ in Extension.   *)

jarA   == Artifact(<<"g">>, <<"a">>, <<"1">>, <<>>, <<"j","a","r">>, <<"r">>)
pomA   == Artifact(<<"g">>, <<"a">>, <<"1">>, <<>>, <<"p","o","m">>, <<"r">>)
colonG ==
    Artifact(<<"g",":","a">>, <<"b">>, <<"1">>, <<>>, <<"j","a","r">>, <<"r">>)
colonA ==
    Artifact(<<"g">>, <<"a",":","b">>, <<"1">>, <<>>, <<"j","a","r">>, <<"r">>)

SetArtifacts == {jarA, colonG, colonA}
SetBatches   == SeqsUpTo(SetArtifacts, MaxBatch)

----------------------------------------------------------------------------
(* Idle values of the layers a run does not exercise *)

IdleSet   == set = newArtifactSet /\ added = <<>>
IdleCrawl ==
    /\ cpc = "idle" /\ filter = <<>> /\ from = 0 /\ offset = 0
    /\ started = FALSE /\ artifacts = newArtifactSet
    /\ cret = [artifacts |-> <<>>, nilList |-> TRUE, err |-> NoErr]
    /\ sent = <<>> /\ pages = <<>> /\ kept = <<>> /\ failure = NoErr

IdleFan ==
    /\ data = <<>> /\ outcome = <<>> /\ mpc = "idle" /\ spawned = 0
    /\ wpc = <<>> /\ calls = <<>> /\ i = 0 /\ result = newArtifactSet
    /\ recvd = <<>>
    /\ fret = [artifacts |-> <<>>, nilList |-> TRUE, err |-> NoErr]

IdleNexus == world = <<>> /\ frames = <<>>

IdleFetch ==
    /\ host = <<>> /\ path = <<>> /\ query = <<>> /\ fpc = "idle"
    /\ cleaned = <<>> /\ fullUrl = <<>> /\ response = <<>> /\ fres = <<>>

IdleSearch ==
    criteria = <<>> /\ spc = "idle" /\ produced = <<>> /\ routed = ""


----------------------------------------------------------------------------
(* Set layer: newArtifactSet followed by add calls *)

InitSet ==
    /\ layer = "set"
    /\ IdleSet /\ IdleCrawl /\ IdleFan /\ IdleNexus /\ IdleFetch /\ IdleSearch

\* set.add(batch)
Add(batch) ==
    /\ layer = "set"
    /\ Len(added) < MaxAdds
    /\ set' = add(set, batch)
    /\ added' = Append(added, batch)
    /\ UNCHANGED <<layer, prepVars, crawlVars, fanVars, nexusVars>>

NextSet == \E batch \in SetBatches : Add(batch)

SpecSet == InitSet /\ [][NextSet]_vars

----------------------------------------------------------------------------
(* Page decoding and the POM rule: src/nexus.go *)

pom == <<"p","o","m">>
jar == <<"j","a","r">>

\* Go's multiple return (value, error) of the artifact-returning functions
Returned(list, isNil, err) ==
    [artifacts |-> list, nilList |-> isNil, err |-> err]

Digit(d) == <<"0","1","2","3","4","5","6","7","8","9">>[d + 1]

RECURSIVE Itoa(_)
\* strconv.Itoa for n >= 0
Itoa(n) ==
    IF n < 10 THEN <<Digit(n)>> ELSE Append(Itoa(n \div 10), Digit(n % 10))

DigitValue(c) == CHOOSE d \in 0..9 : Digit(d) = c

RECURSIVE Atoi(_)
\* the number a decimal string denotes: how the offset is read back
Atoi(str) ==
    IF str = <<>> THEN 0
    ELSE 10 * Atoi(SubSeq(str, 1, Len(str) - 1)) + DigitValue(str[Len(str)])

RECURSIVE linksToArtifactsSwapsFields(_, _, _, _, _)
linksToArtifactsSwapsFields(g, a, v, r, links) ==
    IF links = <<>> THEN <<>>
    ELSE <<Artifact(g, a, v, Head(links).Extension, Head(links).Classifier, r)>>
         \o linksToArtifactsSwapsFields(g, a, v, r, Tail(links))

RECURSIVE linksToArtifacts(_, _, _, _, _)
\* the innermost loop of extractArtifactsFrom
linksToArtifacts(g, a, v, r, links) ==
    IF links = <<>> THEN <<>>
    ELSE <<Artifact(g, a, v, Head(links).Classifier, Head(links).Extension, r)>>
         \o linksToArtifacts(g, a, v, r, Tail(links))

RECURSIVE hitsToArtifacts(_, _, _, _)
\* the loop of extractArtifactsFrom over one group's ArtifactHits
hitsToArtifacts(g, a, v, hits) ==
    IF hits = <<>> THEN <<>>
    ELSE linksToArtifacts(g, a, v, Head(hits).RepositoryId,
                          Head(hits).ArtifactLinks)
         \o hitsToArtifacts(g, a, v, Tail(hits))

RECURSIVE groupsToArtifacts(_)
\* the loop of extractArtifactsFrom over payload.Data
groupsToArtifacts(groups) ==
    IF groups = <<>> THEN <<>>
    ELSE hitsToArtifacts(Head(groups).GroupId, Head(groups).ArtifactId,
                         Head(groups).Version, Head(groups).ArtifactHits)
         \o groupsToArtifacts(Tail(groups))

extractArtifactsFrom(payload) == groupsToArtifacts(payload.Data)

hasLikeGoIdiom(m, key) ==
    [value |-> IF key \in DOMAIN m THEN m[key] ELSE <<>>,
     ok    |-> key \in DOMAIN m]

\* has returns false for ok if value is ""
has(m, key) ==
    IF key \in DOMAIN m /\ m[key] # <<>>
    THEN [value |-> m[key], ok |-> TRUE]
    ELSE [value |-> IF key \in DOMAIN m THEN m[key] ELSE <<>>, ok |-> FALSE]

\* append(artifacts[:i], artifacts[i+1:]...), i counted from 0
removeAt(list, idx) ==
    SubSeq(list, 1, idx) \o SubSeq(list, idx + 2, Len(list))

RECURSIVE removePoms(_, _)
\* the loop of filterPoms: for i := 0; i < len(artifacts); i++
removePoms(list, idx) ==
    IF idx >= Len(list) THEN list
    ELSE IF list[idx + 1].Extension = pom
         THEN removePoms(removeAt(list, idx), idx + 1)
         ELSE removePoms(list, idx + 1)

filterPomsIgnoresPackagingValue(list, f) ==
    IF has(f, "p").ok \/ has(f, "c").ok THEN removePoms(list, 0) ELSE list

filterPoms(list, f) ==
    LET packaging == has(f, "p")
        class     == has(f, "c")
    IN  IF (packaging.ok /\ packaging.value # pom) \/ class.ok
        THEN removePoms(list, 0)
        ELSE list

----------------------------------------------------------------------------
(* fetchArtifactsWhere: src/nexus.go *)

\* filter["from"] = strconv.Itoa(from)
setFrom(f, n) ==
    [k \in DOMAIN f \cup {"from"} |-> IF k = "from" THEN Itoa(n) ELSE f[k]]

loopWithoutStarted(off, st) == off # 0

\* the loop condition: for offset != 0 || !started
loopCondition(off, st) == off # 0 \/ ~st

nextOffsetCountsArtifacts(payload) == Len(extractArtifactsFrom(payload))

\* offset = len(payload.Data)
nextOffset(payload) == Len(payload.Data)

nextFromIsOffset(fr, off) == off

\* from = from + offset
nextFrom(fr, off) == fr + off

mergePageReplaces(acc, payload, f) ==
    add(newArtifactSet, filterPoms(extractArtifactsFrom(payload), f))

\* artifacts.add(filterPoms(extractArtifactsFrom(payload), filter))
mergePage(acc, payload, f) ==
    add(acc, filterPoms(extractArtifactsFrom(payload), f))

crawlFailureKeepsArtifacts(acc, err) == Returned(acc.data, FALSE, err)

\* return nil, err
crawlFailure(acc, err) == Returned(<<>>, TRUE, err)

\* return artifacts.data, nil
crawlSuccess(acc) == Returned(acc.data, FALSE, NoErr)

----------------------------------------------------------------------------
(* The server of the crawl layer: any page built from Groups, or a failure *)

Link(e, c) == [Extension |-> e, Classifier |-> c]
Hit(r, links) == [RepositoryId |-> r, ArtifactLinks |-> links]
Group(g, a, v, hits) ==
    [GroupId |-> g, ArtifactId |-> a, Version |-> v, ArtifactHits |-> hits]

\* a jar and its POM
groupJarPom ==
    Group(<<"g">>, <<"a">>, <<"1">>,
          <<Hit(<<"r">>, <<Link(jar, <<>>), Link(pom, <<>>)>>)>>)
\* two POMs next to each other, then a sources jar in a second repository
groupPomPom ==
    Group(<<"g">>, <<"b">>, <<"1">>,
          <<Hit(<<"r">>, <<Link(pom, <<>>), Link(pom, <<"s">>)>>),
            Hit(<<"s">>, <<Link(jar, <<"s">>)>>)>>)
\* a group without hits: no artifact
groupNoHits == Group(<<"g">>, <<"c">>, <<"1">>, <<>>)

Groups == {groupJarPom, groupPomPom, groupNoHits}

Payload(groups) == [Data |-> groups]

\* a page with more than nine groups, for offsets of two digits
wideGroups == [k \in 1..11 |-> groupNoHits]

\* two groups whose artifacts, colonG and colonA, differ in groupId and
\* artifactId and have the same hash
colonGroups ==
    << Group(colonG.GroupID, colonG.ArtifactID, colonG.Version,
             <<Hit(colonG.RepositoryID, <<Link(jar, <<>>)>>)>>),
       Group(colonA.GroupID, colonA.ArtifactID, colonA.Version,
             <<Hit(colonA.RepositoryID, <<Link(jar, <<>>)>>)>>) >>

Pages ==
    {Payload(gs) :
        gs \in SeqsUpTo(Groups, MaxGroups) \cup {wideGroups, colonGroups}}

\* fetch, bodyToBytes and json.Unmarshal can each fail
CrawlErrors ==
    { Error("fetch failed", 0), Error("read failed", 0),
      Error("decode failed", 0) }

Filters ==
    { [k \in {"g"} |-> <<"g","*">>],
      [k \in {"p"} |-> jar],
      [k \in {"p"} |-> pom],
      [k \in {"p"} |-> <<>>],
      [k \in {"c"} |-> <<"s">>],
      [k \in {"c"} |-> <<>>],
      [k \in {"p", "c"} |-> <<>>] }

----------------------------------------------------------------------------
(* Crawl layer: one call of fetchArtifactsWhere(filter) *)

InitCrawl ==
    /\ layer = "crawl"
    /\ IdleSet /\ IdleFan /\ IdleNexus /\ IdleFetch /\ IdleSearch
    /\ cpc = "loop"
    /\ filter \in Filters
    /\ from = 0 /\ offset = 0 /\ started = FALSE
    /\ artifacts = newArtifactSet
    /\ cret = Returned(<<>>, TRUE, NoErr)
    /\ sent = <<>> /\ pages = <<>> /\ kept = <<>> /\ failure = NoErr

\* the loop is entered: from and filter["from"] are set and the fetch is sent
CrawlRequest ==
    /\ layer = "crawl" /\ cpc = "loop"
    /\ loopCondition(offset, started)
    /\ started' = TRUE
    /\ from' = nextFrom(from, offset)
    /\ filter' = setFrom(filter, from')
    /\ sent' = Append(sent, filter')
    /\ cpc' = "fetch"
    /\ UNCHANGED <<layer, prepVars, setVars, fanVars, nexusVars>>
    /\ UNCHANGED <<offset, artifacts, cret, pages, kept, failure>>

\* the fetch succeeds and its body decodes to payload: the rest of the loop
CrawlPage(payload) ==
    /\ layer = "crawl" /\ cpc = "fetch"
    /\ Len(sent) < MaxFetches \/ payload.Data = <<>>
    /\ artifacts' = mergePage(artifacts, payload, filter)
    /\ offset' = nextOffset(payload)
    /\ pages' = Append(pages, payload)
    /\ kept' = Append(kept, filterPoms(extractArtifactsFrom(payload), filter))
    /\ cpc' = "loop"
    /\ UNCHANGED <<layer, prepVars, setVars, fanVars, nexusVars>>
    /\ UNCHANGED <<filter, from, started, cret, sent, failure>>

\* fetch, bodyToBytes or json.Unmarshal fails
CrawlFail(err) ==
    /\ layer = "crawl" /\ cpc = "fetch"
    /\ cret' = crawlFailure(artifacts, err)
    /\ failure' = err
    /\ cpc' = "done"
    /\ UNCHANGED <<layer, prepVars, setVars, fanVars, nexusVars>>
    /\ UNCHANGED <<filter, from, offset, started, artifacts, sent, pages, kept>>

\* the loop condition is false
CrawlReturn ==
    /\ layer = "crawl" /\ cpc = "loop"
    /\ ~loopCondition(offset, started)
    /\ cret' = crawlSuccess(artifacts)
    /\ cpc' = "done"
    /\ UNCHANGED <<layer, prepVars, setVars, fanVars, nexusVars>>
    /\ UNCHANGED <<filter, from, offset, started, artifacts, sent, pages, kept,
                   failure>>

NextCrawl ==
    \/ CrawlRequest
    \/ \E payload \in Pages : CrawlPage(payload)
    \/ \E err \in CrawlErrors : CrawlFail(err)
    \/ CrawlReturn

SpecCrawl == InitCrawl /\ [][NextCrawl]_vars

----------------------------------------------------------------------------
(* concurrentArtifactSearch: src/artifact.go *)

taskArgumentIsLastKey(keys, n) == keys[Len(keys)]

\* the argument of the n-th go statement: func(datum string) {...}(datum)
taskArgument(keys, n) == keys[n]

setAfterQueryAddsBatch(acc, out) == add(acc, out.artifacts)

\* the task body names the channels and nothing else of the caller: the set
\* the reducer piles the batches in is the same after it as before
setAfterQuery(acc, out) == acc

sendPositionIgnoresError(out) == "send artifacts"

\* what a task sends on after query returned: errors <- err or artifacts <- a
sendPosition(out) == IF out.err # NoErr THEN "send errors" ELSE "send artifacts"

reducerWaitsForOneMore(n, count) == n < count + 1

reducerWaitsForOneLess(n, count) == n < count - 1

\* the reducer's loop condition: i < len(data)
reducerWaits(n, count) == n < count

reduceAppends(acc, batch) ==
    [data |-> acc.data \o batch, hashMap |-> acc.hashMap]

\* case a := <-artifacts: result.add(a)
reduce(acc, batch) == add(acc, batch)

reducerAfterErrorContinues == "reduce"

\* case err := <-errors: return, which ends the reducer's loop
reducerAfterError == "done"

fanFailureKeepsResult(acc, err) == Returned(acc.data, FALSE, err)

\* case err := <-errors: return nil, err
fanFailure(acc, err) == Returned(<<>>, TRUE, err)

fanSuccessRejectsEmpty(acc) ==
    IF acc.data = <<>> THEN Returned(<<>>, TRUE, Error("no artifacts", 0))
    ELSE Returned(acc.data, FALSE, NoErr)

\* return result.data, nil
fanSuccess(acc) == Returned(acc.data, FALSE, NoErr)

----------------------------------------------------------------------------
(* The keys and query functions of the fan-out layer.  The k-th task's     *)
(* query fails with its own error, or returns a batch of its own, a batch  *)
(* that overlaps the other tasks' batches, or the empty batch.             *)

FanKeys == {<<"a">>, <<"b">>}

ownArtifact(k, n) ==
    Artifact(<<"g">>, <<"a">>, Itoa(2 * k + n), <<>>, jar, <<"r">>)

ownBatch(k) == <<ownArtifact(k, 0), ownArtifact(k, 1)>>

sharedBatch == <<ownArtifact(1, 0), colonG, colonA, ownArtifact(2, 1)>>

taskError(k) == Error("query failed", k)

Outcomes(k) ==
    { Returned(ownBatch(k), FALSE, NoErr),
      Returned(sharedBatch, FALSE, NoErr),
      Returned(<<>>, FALSE, NoErr),
      Returned(<<>>, TRUE, taskError(k)) }

----------------------------------------------------------------------------
(* Fan-out layer: one call of concurrentArtifactSearch(data, query) *)

InitFan ==
    /\ layer = "fan"
    /\ IdleSet /\ IdleCrawl /\ IdleNexus /\ IdleFetch /\ IdleSearch
    /\ data \in SeqsUpTo(FanKeys, MaxKeys)
    /\ outcome \in [1..Len(data) -> UNION {Outcomes(k) : k \in 1..Len(data)}]
    /\ \A k \in 1..Len(data) : outcome[k] \in Outcomes(k)
    /\ mpc = "spawn" /\ spawned = 0
    /\ wpc = [k \in 1..Len(data) |-> "not started"]
    /\ calls = [k \in 1..Len(data) |-> <<>>]
    /\ i = 0 /\ result = newArtifactSet /\ recvd = <<>>
    /\ fret = Returned(<<>>, TRUE, NoErr)

\* go func(datum string) {...}(datum), for the next element of data
Spawn ==
    /\ layer = "fan" /\ mpc = "spawn"
    /\ spawned < Len(data)
    /\ spawned' = spawned + 1
    /\ wpc' = [wpc EXCEPT ![spawned + 1] = "query"]
    /\ UNCHANGED <<layer, prepVars, setVars, crawlVars, nexusVars>>
    /\ UNCHANGED <<data, outcome, mpc, calls, i, result, recvd, fret>>

\* the range loop is over: result := newArtifactSet(); i := 0
StartReduce ==
    /\ layer = "fan" /\ mpc = "spawn"
    /\ spawned = Len(data)
    /\ mpc' = "reduce"
    /\ result' = newArtifactSet
    /\ i' = 0
    /\ UNCHANGED <<layer, prepVars, setVars, crawlVars, nexusVars>>
    /\ UNCHANGED <<data, outcome, spawned, wpc, calls, recvd, fret>>

\* task k: a, err := query(datum); it then blocks on its channel send
Query(k) ==
    /\ layer = "fan" /\ wpc[k] = "query"
    /\ calls' = [calls EXCEPT ![k] = Append(@, taskArgument(data, k))]
    /\ wpc' = [wpc EXCEPT ![k] = sendPosition(outcome[k])]
    /\ result' = setAfterQuery(result, outcome[k])
    /\ UNCHANGED <<layer, prepVars, setVars, crawlVars, nexusVars>>
    /\ UNCHANGED <<data, outcome, mpc, spawned, i, recvd, fret>>

\* select receives task k's batch from the unbuffered channel artifacts
ReceiveArtifacts(k) ==
    /\ layer = "fan" /\ mpc = "reduce"
    /\ reducerWaits(i, Len(data))
    /\ wpc[k] = "send artifacts"
    /\ result' = reduce(result, outcome[k].artifacts)
    /\ i' = i + 1
    /\ recvd' = Append(recvd, k)
    /\ wpc' = [wpc EXCEPT ![k] = "done"]
    /\ UNCHANGED <<layer, prepVars, setVars, crawlVars, nexusVars>>
    /\ UNCHANGED <<data, outcome, mpc, spawned, calls, fret>>

\* select receives task k's error from the unbuffered channel errors
ReceiveError(k) ==
    /\ layer = "fan" /\ mpc = "reduce"
    /\ reducerWaits(i, Len(data))
    /\ wpc[k] = "send errors"
    /\ fret' = fanFailure(result, outcome[k].err)
    /\ recvd' = Append(recvd, k)
    /\ wpc' = [wpc EXCEPT ![k] = "done"]
    /\ mpc' = reducerAfterError
    /\ UNCHANGED <<layer, prepVars, setVars, crawlVars, nexusVars>>
    /\ UNCHANGED <<data, outcome, spawned, calls, i, result>>

\* the reducer's loop is over
FanReturn ==
    /\ layer = "fan" /\ mpc = "reduce"
    /\ ~reducerWaits(i, Len(data))
    /\ fret' = fanSuccess(result)
    /\ mpc' = "done"
    /\ UNCHANGED <<layer, prepVars, setVars, crawlVars, nexusVars>>
    /\ UNCHANGED <<data, outcome, spawned, wpc, calls, i, result, recvd>>

NextFan ==
    \/ Spawn
    \/ StartReduce
    \/ \E k \in 1..Len(data) : Query(k)
    \/ \E k \in 1..Len(data) : ReceiveArtifacts(k)
    \/ \E k \in 1..Len(data) : ReceiveError(k)
    \/ FanReturn

SpecFan == InitFan /\ [][NextFan]_vars

\* the key lists of the fair runs: a, b, a, ... of every length
InitFanFair ==
    /\ InitFan
    /\ \A k \in 1..Len(data) : data[k] = IF k % 2 = 1 THEN <<"a">> ELSE <<"b">>

\* the fan-out under a scheduler that runs every goroutine that can run (the
\* caller in its loops, each task in its call of query), with query functions
\* that return
SpecFanFair ==
    /\ InitFanFair
    /\ [][NextFan]_vars
    /\ WF_vars(\/ Spawn
               \/ StartReduce
               \/ \E k \in 1..Len(data) : ReceiveArtifacts(k)
               \/ \E k \in 1..Len(data) : ReceiveError(k)
               \/ FanReturn)
    /\ \A k \in 1..MaxKeys : WF_vars(k \in DOMAIN wpc /\ Query(k))

----------------------------------------------------------------------------
(* Artifacts, fetchAllArtifacts, fetchArtifactsFrom: src/nexus.go *)

\* a call in progress.  kind is "Artifacts", "fetchAllArtifacts",
\* "fetchArtifactsFrom" or "fetchArtifactsWhere"; the fields after ret are the
\* locals of concurrentArtifactSearch and of fetchArtifactsWhere; failure is
\* history, the error the call's listing failed with.  params is the content
\* of the map the call was given and filter is that map's identity: the call
\* in which the map was made (Artifacts' own map when the field is <<>>).
Frame(kind, pc, params, repositoryId) ==
    [kind |-> kind, pc |-> pc, params |-> params, repositoryId |-> repositoryId,
     filter |-> <<>>,
     ret |-> Returned(<<>>, TRUE, NoErr), failure |-> NoErr,
     data |-> <<>>, spawned |-> 0, task |-> <<>>, i |-> 0,
     result |-> newArtifactSet, recvd |-> <<>>,
     from |-> 0, offset |-> 0, started |-> FALSE,
     artifacts |-> newArtifactSet, sent |-> <<>>, pages |-> <<>>]

NoParams == [k \in {} |-> <<>>]

routeByRepositoryId(params) ==
    IF Cardinality(DOMAIN params) = 0 THEN "fetchAllArtifacts"
    ELSE IF "repositoryId" \in DOMAIN params THEN "fetchArtifactsFrom"
         ELSE "fetchArtifactsWhere"

routeWithHas(params) ==
    IF Cardinality(DOMAIN params) = 0 THEN "fetchAllArtifacts"
    ELSE IF Cardinality(DOMAIN params) = 1 /\ has(params, "repositoryId").ok
         THEN "fetchArtifactsFrom"
         ELSE "fetchArtifactsWhere"

\* the switch of Artifacts on its parameters
route(params) ==
    IF Cardinality(DOMAIN params) = 0 THEN "fetchAllArtifacts"
    ELSE IF Cardinality(DOMAIN params) = 1 /\ "repositoryId" \in DOMAIN params
         THEN "fetchArtifactsFrom"
         ELSE "fetchArtifactsWhere"

\* the call Artifacts makes for params
routedCall(params) ==
    CASE route(params) = "fetchAllArtifacts" ->
             Frame("fetchAllArtifacts", "list", NoParams, <<>>)
      [] route(params) = "fetchArtifactsFrom" ->
             Frame("fetchArtifactsFrom", "list", NoParams,
                   params["repositoryId"])
      [] OTHER ->
             Frame("fetchArtifactsWhere", "loop", params, <<>>)

directoryFilterWithoutStar(datum, repositoryId) ==
    [k \in {"g", "repositoryId"} |-> IF k = "g" THEN datum ELSE repositoryId]

\* map[string]string{"g": datum + "*", "repositoryId": repositoryId}
directoryFilter(datum, repositoryId) ==
    [k \in {"g", "repositoryId"} |->
        IF k = "g" THEN datum \o <<"*">> ELSE repositoryId]

newFilterPerFanOut(f, k) == f

\* the map literal is inside the query function: every call of it, one in
\* each task, makes a map of its own, named here by the task's call
newFilter(f, k) == Append(f, k)

\* the query function a fan-out of call fr runs for datum
queryCall(fr, datum) ==
    IF fr.kind = "fetchAllArtifacts"
    THEN Frame("fetchArtifactsFrom", "list", NoParams, datum)
    ELSE Frame("fetchArtifactsWhere", "loop",
               directoryFilter(datum, fr.repositoryId), <<>>)

repositoryIdsSkipsFirst(repos) ==
    [k \in 1..(Len(repos) - 1) |-> repos[k + 1].Id]

RECURSIVE repositoryIds(_)
\* ids[i] = repo.Id
repositoryIds(repos) ==
    IF repos = <<>> THEN <<>>
    ELSE <<Head(repos).Id>> \o repositoryIds(Tail(repos))

listFailureReturnsEmpty(err) == Returned(<<>>, FALSE, NoErr)

\* if err != nil { return nil, err } after a listing
listFailure(err) == Returned(<<>>, TRUE, err)

RECURSIVE directories(_)
\* the entries of a content listing that are not leaves
directories(entries) ==
    IF entries = <<>> THEN <<>>
    ELSE (IF ~Head(entries).Leaf THEN <<Head(entries).Text>> ELSE <<>>)
         \o directories(Tail(entries))

----------------------------------------------------------------------------
(* The Nexus instance of the nexus layer.  The search service answers a    *)
(* search with the GAV groups of the repository asked for whose groupId    *)
(* matches g, PageSize groups from the offset on.                          *)

IsPrefix(pre, str) == Len(pre) <= Len(str) /\ SubSeq(str, 1, Len(pre)) = pre

\* g matches a groupId when equal, or, ending in "*", when a prefix of it
Matches(pattern, groupId) ==
    IF pattern # <<>> /\ pattern[Len(pattern)] = "*"
    THEN IsPrefix(SubSeq(pattern, 1, Len(pattern) - 1), groupId)
    ELSE pattern = groupId

RECURSIVE Select(_, _)
\* the groups a search with filter f finds, in the service's order
Select(groups, f) ==
    IF groups = <<>> THEN <<>>
    ELSE LET gr == Head(groups)
             ok == /\ "g" \in DOMAIN f => Matches(f["g"], gr.GroupId)
                   /\ "repositoryId" \in DOMAIN f =>
                          \E h \in Range(gr.ArtifactHits) :
                              h.RepositoryId = f["repositoryId"]
         IN  (IF ok THEN <<gr>> ELSE <<>>) \o Select(Tail(groups), f)

\* the page the service answers a search with filter f with
SearchPage(w, f) ==
    LET found == Select(w.groups, f)
        first == Atoi(f["from"]) + 1
        last  == IF first + PageSize - 1 < Len(found)
                 THEN first + PageSize - 1 ELSE Len(found)
    IN  Payload(SubSeq(found, first, last))

Repo(id) == [Id |-> id]
Entry(text, leaf) == [Text |-> text, Leaf |-> leaf]

repoR == <<"r">>
repoS == <<"s">>

\* repository r has the directories c and co, whose searches overlap, and a
\* file; repository s has one directory
World ==
    [repos   |-> <<Repo(repoR), Repo(repoS)>>,
     content |-> [r \in {repoR, repoS} |->
                    IF r = repoR
                    THEN <<Entry(<<"c">>, FALSE), Entry(<<"x">>, TRUE),
                           Entry(<<"c","o">>, FALSE)>>
                    ELSE <<Entry(<<"o">>, FALSE)>>],
     groups  |-> << Group(<<"c","o",".","f">>, <<"a">>, <<"1">>,
                          <<Hit(repoR, <<Link(jar, <<>>), Link(pom, <<>>)>>)>>),
                    Group(<<"c",".","f">>, <<"a">>, <<"1">>,
                          <<Hit(repoR, <<Link(jar, <<>>)>>)>>),
                    Group(<<"o",".","f">>, <<"a">>, <<"1">>,
                          <<Hit(repoS,
                                <<Link(pom, <<>>), Link(jar, <<"s">>)>>)>>) >>]

\* the parameters Artifacts is called with
NexusParams ==
    { NoParams,
      [k \in {"repositoryId"} |-> repoR],
      [k \in {"repositoryId"} |-> repoS],
      [k \in {"g"} |-> <<"c","*">>],
      [k \in {"repositoryId", "c"} |-> IF k = "c" THEN <<"s">> ELSE repoS] }

\* fetch, bodyToBytes and json.Unmarshal can each fail in a listing as well
ListErrors == {Error("listing failed", 0), Error("listing undecodable", 0)}

----------------------------------------------------------------------------
(* Nexus layer: one call of Artifacts(criteria), with params the           *)
(* criteria's parameters                                                   *)

Top == <<>>
Callee == <<1>>

InitNexus ==
    /\ layer = "nexus"
    /\ IdleSet /\ IdleCrawl /\ IdleFan /\ IdleFetch /\ IdleSearch
    /\ world = World
    /\ \E params \in NexusParams :
           frames = [f \in {Top} |-> Frame("Artifacts", "call", params, <<>>)]

Running(f) == f \in DOMAIN frames

\* frames with the call g added or replaced
WithFrame(fs, g, fr) ==
    [f \in DOMAIN fs \cup {g} |-> IF f = g THEN fr ELSE fs[f]]

\* Artifacts picks fetchAllArtifacts, fetchArtifactsFrom or
\* fetchArtifactsWhere and calls it
Dispatch ==
    /\ layer = "nexus"
    /\ frames[Top].pc = "call"
    /\ frames' = WithFrame([frames EXCEPT ![Top].pc = "wait"], Callee,
                           routedCall(frames[Top].params))
    /\ UNCHANGED <<layer, prepVars, setVars, crawlVars, fanVars, world>>

\* Artifacts returns what the call it made returned
ArtifactsReturn ==
    /\ layer = "nexus"
    /\ frames[Top].pc = "wait"
    /\ Running(Callee) /\ frames[Callee].pc = "done"
    /\ frames' = [frames EXCEPT ![Top].pc = "done",
                                ![Top].ret = frames[Callee].ret]
    /\ UNCHANGED <<layer, prepVars, setVars, crawlVars, fanVars, world>>

\* fetchAllArtifacts: Repositories() succeeds, the ids become the keys
ListRepositories(f) ==
    /\ layer = "nexus" /\ Running(f)
    /\ frames[f].kind = "fetchAllArtifacts" /\ frames[f].pc = "list"
    /\ frames' = [frames EXCEPT ![f].pc = "spawn",
                                ![f].data = repositoryIds(world.repos),
                                ![f].task = [k \in 1..Len(world.repos) |->
                                                "not started"]]
    /\ UNCHANGED <<layer, prepVars, setVars, crawlVars, fanVars, world>>

\* fetchArtifactsFrom: fetchFirstLevelDirsOf succeeds, the directories become
\* the keys
ListDirectories(f) ==
    /\ layer = "nexus" /\ Running(f)
    /\ frames[f].kind = "fetchArtifactsFrom" /\ frames[f].pc = "list"
    /\ LET dirs == directories(world.content[frames[f].repositoryId])
       IN  frames' = [frames EXCEPT ![f].pc = "spawn",
                                    ![f].data = dirs,
                                    ![f].task = [k \in 1..Len(dirs) |->
                                                    "not started"]]
    /\ UNCHANGED <<layer, prepVars, setVars, crawlVars, fanVars, world>>

\* the listing of fetchAllArtifacts or of fetchArtifactsFrom fails
ListFail(f, err) ==
    /\ layer = "nexus" /\ Running(f)
    /\ frames[f].kind \in {"fetchAllArtifacts", "fetchArtifactsFrom"}
    /\ frames[f].pc = "list"
    /\ frames' = [frames EXCEPT ![f].pc = "done",
                                ![f].failure = err,
                                ![f].ret = listFailure(err)]
    /\ UNCHANGED <<layer, prepVars, setVars, crawlVars, fanVars, world>>

\* the go statement for the next key; the task calls query(datum)
NexusSpawn(f) ==
    /\ layer = "nexus" /\ Running(f)
    /\ frames[f].pc = "spawn"
    /\ frames[f].spawned < Len(frames[f].data)
    /\ LET k == frames[f].spawned + 1
       IN  frames' = WithFrame([frames EXCEPT ![f].spawned = k,
                                              ![f].task[k] = "query"],
                               Append(f, k),
                               [queryCall(frames[f],
                                          taskArgument(frames[f].data, k))
                                  EXCEPT !.filter = newFilter(f, k)])
    /\ UNCHANGED <<layer, prepVars, setVars, crawlVars, fanVars, world>>

\* the range loop is over: result := newArtifactSet(); i := 0
NexusStartReduce(f) ==
    /\ layer = "nexus" /\ Running(f)
    /\ frames[f].pc = "spawn"
    /\ frames[f].spawned = Len(frames[f].data)
    /\ frames' = [frames EXCEPT ![f].pc = "reduce",
                                ![f].result = newArtifactSet,
                                ![f].i = 0]
    /\ UNCHANGED <<layer, prepVars, setVars, crawlVars, fanVars, world>>

\* the k-th task's query has returned without error and the reducer receives
\* its batch
NexusReceiveArtifacts(f, k) ==
    /\ layer = "nexus" /\ Running(f) /\ Running(Append(f, k))
    /\ frames[f].pc = "reduce"
    /\ reducerWaits(frames[f].i, Len(frames[f].data))
    /\ frames[f].task[k] = "query"
    /\ frames[Append(f, k)].pc = "done"
    /\ sendPosition(frames[Append(f, k)].ret) = "send artifacts"
    /\ frames' = [frames EXCEPT
                    ![f].result = reduce(@, frames[Append(f, k)].ret.artifacts),
                    ![f].i = @ + 1,
                    ![f].recvd = Append(@, k),
                    ![f].task[k] = "done"]
    /\ UNCHANGED <<layer, prepVars, setVars, crawlVars, fanVars, world>>

\* the k-th task's query has returned an error and the reducer receives it
NexusReceiveError(f, k) ==
    /\ layer = "nexus" /\ Running(f) /\ Running(Append(f, k))
    /\ frames[f].pc = "reduce"
    /\ reducerWaits(frames[f].i, Len(frames[f].data))
    /\ frames[f].task[k] = "query"
    /\ frames[Append(f, k)].pc = "done"
    /\ sendPosition(frames[Append(f, k)].ret) = "send errors"
    /\ frames' = [frames EXCEPT
                    ![f].ret = fanFailure(frames[f].result,
                                          frames[Append(f, k)].ret.err),
                    ![f].recvd = Append(@, k),
                    ![f].task[k] = "done",
                    ![f].pc = reducerAfterError]
    /\ UNCHANGED <<layer, prepVars, setVars, crawlVars, fanVars, world>>

\* the reducer's loop is over
NexusFanReturn(f) ==
    /\ layer = "nexus" /\ Running(f)
    /\ frames[f].pc = "reduce"
    /\ ~reducerWaits(frames[f].i, Len(frames[f].data))
    /\ frames' = [frames EXCEPT ![f].ret = fanSuccess(frames[f].result),
                                ![f].pc = "done"]
    /\ UNCHANGED <<layer, prepVars, setVars, crawlVars, fanVars, world>>

\* the loop of fetchArtifactsWhere is entered: from and filter["from"] are set
\* and nexus.fetch sends the request; the goroutine waits for the response
NexusCrawlRequest(f) ==
    /\ layer = "nexus" /\ Running(f)
    /\ frames[f].kind = "fetchArtifactsWhere" /\ frames[f].pc = "loop"
    /\ loopCondition(frames[f].offset, frames[f].started)
    /\ LET fr      == frames[f]
           newFrom == nextFrom(fr.from, fr.offset)
           flt     == setFrom(fr.params, newFrom)
       IN  frames' = [frames EXCEPT
                        ![f].started = TRUE,
                        ![f].from = newFrom,
                        ![f].params = flt,
                        ![f].sent = Append(@, flt),
                        ![f].pc = "fetch"]
    /\ UNCHANGED <<layer, prepVars, setVars, crawlVars, fanVars, world>>

\* the response arrives and decodes to a page: the rest of the loop's pass
NexusCrawlPage(f) ==
    /\ layer = "nexus" /\ Running(f)
    /\ frames[f].kind = "fetchArtifactsWhere" /\ frames[f].pc = "fetch"
    /\ LET fr      == frames[f]
           payload == SearchPage(world, fr.params)
       IN  frames' = [frames EXCEPT
                        ![f].artifacts = mergePage(@, payload, fr.params),
                        ![f].offset = nextOffset(payload),
                        ![f].pages = Append(@, payload),
                        ![f].pc = "loop"]
    /\ UNCHANGED <<layer, prepVars, setVars, crawlVars, fanVars, world>>

\* the fetch, the body read or the decoding fails: return nil, err
NexusCrawlFail(f, err) ==
    /\ layer = "nexus" /\ Running(f)
    /\ frames[f].kind = "fetchArtifactsWhere" /\ frames[f].pc = "fetch"
    /\ frames' = [frames EXCEPT
                     ![f].ret = crawlFailure(frames[f].artifacts, err),
                     ![f].pc = "done"]
    /\ UNCHANGED <<layer, prepVars, setVars, crawlVars, fanVars, world>>

\* the loop condition of fetchArtifactsWhere is false
NexusCrawlReturn(f) ==
    /\ layer = "nexus" /\ Running(f)
    /\ frames[f].kind = "fetchArtifactsWhere" /\ frames[f].pc = "loop"
    /\ ~loopCondition(frames[f].offset, frames[f].started)
    /\ frames' = [frames EXCEPT ![f].ret = crawlSuccess(frames[f].artifacts),
                                ![f].pc = "done"]
    /\ UNCHANGED <<layer, prepVars, setVars, crawlVars, fanVars, world>>

NextNexus ==
    \/ Dispatch
    \/ ArtifactsReturn
    \/ \E f \in DOMAIN frames : ListRepositories(f)
    \/ \E f \in DOMAIN frames : ListDirectories(f)
    \/ \E f \in DOMAIN frames : \E err \in ListErrors : ListFail(f, err)
    \/ \E f \in DOMAIN frames : NexusSpawn(f)
    \/ \E f \in DOMAIN frames : NexusStartReduce(f)
    \/ \E f \in DOMAIN frames :
           \E k \in 1..Len(frames[f].data) : NexusReceiveArtifacts(f, k)
    \/ \E f \in DOMAIN frames :
           \E k \in 1..Len(frames[f].data) : NexusReceiveError(f, k)
    \/ \E f \in DOMAIN frames : NexusFanReturn(f)
    \/ \E f \in DOMAIN frames : NexusCrawlRequest(f)
    \/ \E f \in DOMAIN frames : NexusCrawlPage(f)
    \/ \E f \in DOMAIN frames : \E err \in CrawlErrors : NexusCrawlFail(f, err)
    \/ \E f \in DOMAIN frames : NexusCrawlReturn(f)

SpecNexus == InitNexus /\ [][NextNexus]_vars

----------------------------------------------------------------------------
(* cleanSlashes and BuildFullURL: src/unnamed/part_002 *)

MalformedURLError(url) == Error("MalformedURLError", url)

\* the index of the first ":" of url, 0 if it has none
firstColon(url) ==
    IF \E k \in 1..Len(url) : url[k] = ":"
    THEN CHOOSE k \in 1..Len(url) :
             url[k] = ":" /\ \A j \in 1..(k - 1) : url[j] # ":"
    ELSE 0

\* urlRe.FindStringSubmatch(url), urlRe = ^(?P<scheme>[^:]+)://(?P<rest>.+)
\* the scheme ends at the first colon; no character here is a line break,
\* so rest runs to the end of url
FindStringSubmatch(url) ==
    LET c == firstColon(url)
    IN  IF /\ c >= 2 /\ Len(url) >= c + 3
           /\ url[c + 1] = "/" /\ url[c + 2] = "/"
        THEN [matched |-> TRUE, scheme |-> SubSeq(url, 1, c - 1),
              rest |-> SubSeq(url, c + 3, Len(url))]
        ELSE [matched |-> FALSE, scheme |-> <<>>, rest |-> <<>>]

RECURSIVE skipSlashes(_)
\* str without its leading slashes
skipSlashes(str) ==
    IF str # <<>> /\ Head(str) = "/" THEN skipSlashes(Tail(str)) ELSE str

RECURSIVE replaceSlashPairs(_)
replaceSlashPairs(str) ==
    IF str = <<>> THEN <<>>
    ELSE IF Len(str) >= 2 /\ str[1] = "/" /\ str[2] = "/"
         THEN <<"/">> \o replaceSlashPairs(Tail(Tail(str)))
         ELSE <<Head(str)>> \o replaceSlashPairs(Tail(str))

RECURSIVE replaceSlashes(_)
\* slashesRe.ReplaceAllString(str, "/"), slashesRe = //+
replaceSlashes(str) ==
    IF str = <<>> THEN <<>>
    ELSE IF Len(str) >= 2 /\ str[1] = "/" /\ str[2] = "/"
         THEN <<"/">> \o replaceSlashes(skipSlashes(str))
         ELSE <<Head(str)>> \o replaceSlashes(Tail(str))

Cleaned(url, err) == [url |-> url, err |-> err]

cleanSlashes(url) ==
    LET matches == FindStringSubmatch(url)
    IN  IF ~matches.matched THEN Cleaned(<<>>, MalformedURLError(url))
        ELSE Cleaned(matches.scheme \o <<":", "/", "/">>
                         \o replaceSlashes(matches.rest), NoErr)

\* a key of a query as characters
keyChars(k) ==
    CASE k = "from" -> <<"f", "r", "o", "m">>
      [] k = "repositoryId" ->
             <<"r", "e", "p", "o", "s", "i", "t", "o", "r", "y", "I", "d">>
      [] OTHER -> <<k>>

RECURSIVE joinParams(_, _)
\* strings.Join(params, "&"), params[n] = k + "=" + v in the order the range
\* over the map visited the keys
joinParams(q, order) ==
    IF order = <<>> THEN <<>>
    ELSE keyChars(Head(order)) \o <<"=">> \o q[Head(order)]
         \o (IF Len(order) > 1 THEN <<"&">> ELSE <<>>)
         \o joinParams(q, Tail(order))

BuildFullURL(h, p, q, order) ==
    IF Len(order) = 0 THEN cleanSlashes(h \o <<"/">> \o p)
    ELSE cleanSlashes(h \o <<"/">> \o p \o <<"?">> \o joinParams(q, order))

----------------------------------------------------------------------------
(* fetch: src/nexus.go *)

StatusUnauthorized == 401

Response(code, status, body) ==
    [StatusCode |-> code, Status |-> status, Body |-> body]

NoResponse == Response(0, <<>>, <<>>)

\* what fetch returns: a response or nil, and an error or nil
Fetched(resp, isNil, err) ==
    [response |-> resp, nilResponse |-> isNil, err |-> err]

\* &credentials.Error{fullUrl, nexus.Credentials}
CredentialsError(url) == Error("credentials.Error", url)

\* the bad-response error of a response: the client's URL, the status code
\* and the status text
errorFromResponse(url, resp) ==
    Error("BadResponseError",
          [Url |-> url, StatusCode |-> resp.StatusCode, Status |-> resp.Status])

validateKeepsResponse(url, full, resp) ==
    IF resp.StatusCode = StatusUnauthorized
    THEN Fetched(resp, FALSE, CredentialsError(full))
    ELSE IF 400 <= resp.StatusCode /\ resp.StatusCode < 600
         THEN Fetched(resp, FALSE, errorFromResponse(url, resp))
         ELSE Fetched(resp, FALSE, NoErr)

\* the switch of fetch on response.StatusCode
validate(url, full, resp) ==
    IF resp.StatusCode = StatusUnauthorized
    THEN Fetched(NoResponse, TRUE, CredentialsError(full))
    ELSE IF 400 <= resp.StatusCode /\ resp.StatusCode < 600
         THEN Fetched(NoResponse, TRUE, errorFromResponse(url, resp))
         ELSE Fetched(resp, FALSE, NoErr)

----------------------------------------------------------------------------
(* Fetch layer: one call of fetch(path, query) of a client whose Url is    *)
(* host, and cleanSlashes called on host as the tests call it              *)

UrlChars == {"h", ":", "/"}

Hosts == SeqsUpTo(UrlChars, MaxHostLen)

Paths == {<<>>, <<"/", "/", "n">>}

Queries ==
    { NoParams,
      [k \in {"p"} |-> <<"1">>],
      [k \in {"p", "q"} |-> IF k = "p" THEN <<"1">> ELSE <<"/", "/">>] }

\* the orders in which a range over the map q can visit its keys
Orders(q) ==
    {o \in SeqsUpTo(DOMAIN q, Cardinality(DOMAIN q)) :
        Len(o) = Cardinality(DOMAIN q) /\ Range(o) = DOMAIN q}

Statuses == {100, 200, 204, 299, 300, 304, 400, 401, 404, 500, 599, 600}

\* response.Status: the code and a reason phrase
StatusText(code) == Itoa(code) \o <<" ", "t">>

\* http.NewRequest and HttpClient.Do can fail
RequestErrors == {Error("request failed", 0), Error("transport failed", 0)}

InitFetch ==
    /\ layer = "fetch"
    /\ IdleSet /\ IdleCrawl /\ IdleFan /\ IdleNexus /\ IdleSearch
    /\ host \in Hosts /\ path \in Paths /\ query \in Queries
    /\ fpc = "build"
    /\ cleaned = <<>>
    /\ fullUrl = Cleaned(<<>>, NoErr)
    /\ response = NoResponse
    /\ fres = Fetched(NoResponse, TRUE, NoErr)

\* cleanSlashes(host)
CleanSlashes ==
    /\ layer = "fetch" /\ fpc = "build"
    /\ Len(cleaned) = 0
    /\ cleaned' = <<cleanSlashes(host)>>
    /\ UNCHANGED <<layer, setVars, crawlVars, fanVars, nexusVars, searchVars>>
    /\ UNCHANGED <<host, path, query, fpc, fullUrl, response, fres>>

\* cleanSlashes on the URL cleanSlashes returned
CleanSlashesAgain ==
    /\ layer = "fetch" /\ fpc = "build"
    /\ Len(cleaned) = 1 /\ cleaned[1].err = NoErr
    /\ cleaned' = Append(cleaned, cleanSlashes(cleaned[1].url))
    /\ UNCHANGED <<layer, setVars, crawlVars, fanVars, nexusVars, searchVars>>
    /\ UNCHANGED <<host, path, query, fpc, fullUrl, response, fres>>

\* fullUrl, err := util.BuildFullUrl(nexus.Url, path, query); an error is
\* returned with a nil response
FetchBuildURL(order) ==
    /\ layer = "fetch" /\ fpc = "build"
    /\ fullUrl' = BuildFullURL(host, path, query, order)
    /\ IF fullUrl'.err # NoErr
       THEN fres' = Fetched(NoResponse, TRUE, fullUrl'.err) /\ fpc' = "done"
       ELSE fres' = fres /\ fpc' = "do"
    /\ UNCHANGED <<layer, setVars, crawlVars, fanVars, nexusVars, searchVars>>
    /\ UNCHANGED <<host, path, query, cleaned, response>>

\* http.NewRequest or HttpClient.Do returns an error
FetchFail(err) ==
    /\ layer = "fetch" /\ fpc = "do"
    /\ fres' = Fetched(NoResponse, TRUE, err)
    /\ fpc' = "done"
    /\ UNCHANGED <<layer, setVars, crawlVars, fanVars, nexusVars, searchVars>>
    /\ UNCHANGED <<host, path, query, cleaned, fullUrl, response>>

\* HttpClient.Do returns a response with the given status; fetch inspects it
FetchRespond(status) ==
    /\ layer = "fetch" /\ fpc = "do"
    /\ response' = Response(status, StatusText(status), <<"b">>)
    /\ fres' = validate(host, fullUrl.url, response')
    /\ fpc' = "done"
    /\ UNCHANGED <<layer, setVars, crawlVars, fanVars, nexusVars, searchVars>>
    /\ UNCHANGED <<host, path, query, cleaned, fullUrl>>

NextFetch ==
    \/ CleanSlashes
    \/ CleanSlashesAgain
    \/ \E order \in Orders(query) : FetchBuildURL(order)
    \/ \E err \in RequestErrors : FetchFail(err)
    \/ \E status \in Statuses : FetchRespond(status)

SpecFetch == InitFetch /\ [][NextFetch]_vars

----------------------------------------------------------------------------
(* Search criteria: src/unnamed/part_004 (package search) *)

\* const None = noCriteria(true)
None == [type |-> "noCriteria"]

\* a nil Criteria
NilCriteria == [type |-> "nil"]

ByCoordinates(g, a, v, c, p) ==
    [type |-> "ByCoordinates", GroupId |-> g, ArtifactId |-> a, Version |-> v,
     Classifier |-> c, Packaging |-> p]

ByKeyword(q) == [type |-> "ByKeyword", value |-> q]
ByClassname(cn) == [type |-> "ByClassname", value |-> cn]
ByChecksum(sha1) == [type |-> "ByChecksum", value |-> sha1]
ByRepository(id) == [type |-> "ByRepository", value |-> id]

InRepository(id, inner) ==
    [type |-> "InRepository", RepositoryId |-> id, Criteria |-> inner]

OrZero(c) == IF c = NilCriteria THEN None ELSE c

\* map[string]string{key: value}
oneKey(key, value) == [k \in {key} |-> value]

byCoordinatesAllKeys(gav) ==
    [k \in {"g", "a", "v", "p", "c"} |->
        CASE k = "g" -> gav.GroupId
          [] k = "a" -> gav.ArtifactId
          [] k = "v" -> gav.Version
          [] k = "p" -> gav.Packaging
          [] k = "c" -> gav.Classifier]

\* ByCoordinates.Parameters: result[k] is set if the field is not ""
byCoordinates(gav) ==
    LET given == (IF gav.GroupId # <<>> THEN {"g"} ELSE {})
                 \cup (IF gav.ArtifactId # <<>> THEN {"a"} ELSE {})
                 \cup (IF gav.Version # <<>> THEN {"v"} ELSE {})
                 \cup (IF gav.Packaging # <<>> THEN {"p"} ELSE {})
                 \cup (IF gav.Classifier # <<>> THEN {"c"} ELSE {})
    IN  [k \in given |->
            CASE k = "g" -> gav.GroupId
              [] k = "a" -> gav.ArtifactId
              [] k = "v" -> gav.Version
              [] k = "p" -> gav.Packaging
              [] k = "c" -> gav.Classifier]

withRepositoryIdKeepsInner(m, id) ==
    [k \in DOMAIN m \cup {"repositoryId"} |->
        IF k \in DOMAIN m THEN m[k] ELSE id]

\* params["repositoryId"] = inRepo.RepositoryId
withRepositoryId(m, id) ==
    [k \in DOMAIN m \cup {"repositoryId"} |->
        IF k = "repositoryId" THEN id ELSE m[k]]

RECURSIVE Parameters(_)
\* c.Parameters()
Parameters(c) ==
    CASE c.type = "noCriteria" -> NoParams
      [] c.type = "ByCoordinates" -> byCoordinates(c)
      [] c.type = "ByKeyword" -> oneKey("q", c.value)
      [] c.type = "ByClassname" -> oneKey("cn", c.value)
      [] c.type = "ByChecksum" -> oneKey("sha1", c.value)
      [] c.type = "ByRepository" -> oneKey("repositoryId", c.value)
      [] c.type = "InRepository" ->
             withRepositoryId(Parameters(c.Criteria), c.RepositoryId)

----------------------------------------------------------------------------
(* Search layer: Artifacts(criteria) up to the call it makes *)

Texts == {<<>>, <<"x">>}

RepositoryIdTexts == {<<>>, repoR, repoS}

PlainCriteria ==
    {None}
    \cup {ByCoordinates(g, a, v, c, p) :
              g \in Texts, a \in Texts, v \in Texts, c \in Texts, p \in Texts}
    \cup {ByKeyword(q) : q \in Texts}
    \cup {ByClassname(q) : q \in Texts}
    \cup {ByChecksum(q) : q \in Texts}
    \cup {ByRepository(id) : id \in RepositoryIdTexts}

RECURSIVE Nested(_)
\* the criteria with at most n InRepository around a plain one
Nested(n) ==
    IF n = 0 THEN PlainCriteria
    ELSE Nested(n - 1)
         \cup {InRepository(id, inner) :
                   id \in RepositoryIdTexts, inner \in Nested(n - 1)}

InitSearch ==
    /\ layer = "search"
    /\ IdleSet /\ IdleCrawl /\ IdleFan /\ IdleNexus /\ IdleFetch
    /\ criteria \in Nested(MaxNesting) \cup {NilCriteria}
    /\ spc = "criteria"
    /\ produced = NoParams
    /\ routed = ""

\* params := search.OrZero(criteria).Parameters()
CallParameters ==
    /\ layer = "search" /\ spc = "criteria"
    /\ produced' = Parameters(OrZero(criteria))
    /\ spc' = "params"
    /\ UNCHANGED <<layer, setVars, crawlVars, fanVars, nexusVars, fetchVars>>
    /\ UNCHANGED <<criteria, routed>>

\* the switch of Artifacts on params
Route ==
    /\ layer = "search" /\ spc = "params"
    /\ routed' = route(produced)
    /\ spc' = "routed"
    /\ UNCHANGED <<layer, setVars, crawlVars, fanVars, nexusVars, fetchVars>>
    /\ UNCHANGED <<criteria, produced>>

NextSearch == CallParameters \/ Route

SpecSearch == InitSearch /\ [][NextSearch]_vars

----------------------------------------------------------------------------
(* A run exercises one layer *)

Init ==
    InitSet \/ InitCrawl \/ InitFan \/ InitNexus \/ InitFetch \/ InitSearch

Next ==
    NextSet \/ NextCrawl \/ NextFan \/ NextNexus \/ NextFetch \/ NextSearch

Spec == Init /\ [][Next]_vars

----------------------------------------------------------------------------
(* Claims about the set layer *)

\* the identity keys of a list of artifacts
Hashes(list) == {hash(list[k]) : k \in 1..Len(list)}

\* the concatenation of all batches added so far
AddedSoFar == Join(added)

RECURSIVE FirstOccurrences(_, _)
\* the elements of list whose identity key is not in seen and does not occur
\* earlier in list, in order
FirstOccurrences(list, seen) ==
    IF list = <<>> THEN <<>>
    ELSE IF hash(Head(list)) \in seen
         THEN FirstOccurrences(Tail(list), seen)
         ELSE <<Head(list)>> \o
              FirstOccurrences(Tail(list), seen \cup {hash(Head(list))})

\* C1: after any sequence of add calls on a new set, no two elements of the
\* set's data list have the same identity key.
C1_NoDuplicateIdentity ==
    layer = "set" =>
        \A p, q \in 1..Len(set.data) :
            p # q => hash(set.data[p]) # hash(set.data[q])

\* a batch with a repeat inside was added, then an overlapping batch
C1_Witness ==
    /\ layer = "set"
    /\ Len(added) = 2
    /\ added[1] = <<jarA, jarA>>
    /\ added[2] = <<colonG, jarA>>
    /\ Len(set.data) = 2

\* C2: the data list is the list of first occurrences, by identity key and in
\* order, of the concatenation of all batches added so far.
C2_FirstOccurrenceOrder ==
    layer = "set" => set.data = FirstOccurrences(AddedSoFar, {})

\* artifacts were re-added (also under a colliding key) after new ones
C2_Witness ==
    /\ layer = "set"
    /\ added = <<(<<colonG, jarA>>), (<<jarA, colonA>>), (<<colonG>>)>>
    /\ set.data = <<colonG, jarA>>

\* C3: adding the batch that was added last once more leaves the data list as
\* it was after the first of the two adds; add([x]); add([x]) on an empty set
\* gives a set of size 1.
C3_MergeIdempotent ==
    /\ [](layer = "set" =>
            \A x \in SetArtifacts :
                added = <<(<<x>>), (<<x>>)>> => Len(set.data) = 1)
    /\ [][(/\ layer = "set"
           /\ Len(added) >= 1
           /\ Len(added') = Len(added) + 1
           /\ added'[Len(added')] = added[Len(added)])
          => set'.data = set.data]_vars

\* a non-empty batch was added twice in a row to a non-empty set
C3_Witness ==
    /\ layer = "set"
    /\ Len(added) = 3
    /\ added[2] = added[3]
    /\ Len(added[3]) = 2
    /\ added[1] # added[2]
    /\ Len(set.data) = 2

----------------------------------------------------------------------------
(* Claims about the crawl layer *)

RECURSIVE GroupsIn(_)
\* the number of GAV groups in a list of pages
GroupsIn(ps) == IF ps = <<>> THEN 0 ELSE Len(Head(ps).Data) + GroupsIn(Tail(ps))

\* the pages with at least one GAV group
NonEmptyPages == {k \in 1..Len(pages) : pages[k].Data # <<>>}

\* C8: a crawl performs at least one fetch; when the first page has no GAV
\* group it performs exactly one fetch and returns an empty result, no error.
C8_AtLeastOneFetch ==
    (layer = "crawl" /\ cpc = "done") =>
        /\ Len(sent) >= 1
        /\ (Len(pages) >= 1 /\ pages[1].Data = <<>>) =>
               /\ Len(sent) = 1
               /\ cret.err = NoErr
               /\ cret.artifacts = <<>>

\* the crawl returned after an empty first page
C8_Witness ==
    /\ layer = "crawl" /\ cpc = "done"
    /\ Len(pages) = 1 /\ pages[1].Data = <<>>
    /\ Len(sent) = 1 /\ cret.err = NoErr

\* C9: without failures, a fetch follows a page if and only if the page has at
\* least one GAV group; a successful crawl performs (non-empty pages) + 1
\* fetches and its last page is the first one without groups.
C9_FetchAgainIffGroups ==
    layer = "crawl" =>
        /\ \A k \in 1..Len(pages) : Len(sent) > k => pages[k].Data # <<>>
        /\ (cpc = "done" /\ cret.err = NoErr) =>
               /\ \A k \in 1..Len(pages) : pages[k].Data # <<>> => Len(sent) > k
               /\ Len(sent) = Cardinality(NonEmptyPages) + 1
               /\ Len(pages) = Len(sent)
               /\ pages[Len(pages)].Data = <<>>

\* a successful crawl went on after a page whose groups hold no artifact and
\* after a page whose artifacts were all seen before
C9_Witness ==
    /\ layer = "crawl" /\ cpc = "done" /\ cret.err = NoErr
    /\ Len(sent) = 3
    /\ pages[1].Data = <<groupJarPom>>
    /\ pages[2].Data = <<groupNoHits, groupJarPom>>

\* C10: the offset sent with the k-th fetch is the number of GAV groups of
\* the pages 1..k-1 (0 for the first fetch).
C10_OffsetIsGroupSum ==
    layer = "crawl" =>
        \A k \in 1..Len(sent) :
            /\ "from" \in DOMAIN sent[k]
            /\ Atoi(sent[k]["from"]) = GroupsIn(SubSeq(pages, 1, k - 1))

\* third fetch after a page of 11 groups without artifacts and a page of one
\* group with two artifacts: the offset is 12
C10_Witness ==
    /\ layer = "crawl"
    /\ Len(sent) = 3
    /\ pages[1].Data = wideGroups
    /\ pages[2].Data = <<groupJarPom>>
    /\ sent[3]["from"] = <<"1","2">>
    /\ sent[1]["from"] = <<"0">>

----------------------------------------------------------------------------
(* Claims about the fan-out layer *)

Tasks == 1..Len(data)

AllQueriesSucceed == \A k \in Tasks : outcome[k].err = NoErr

\* the identity keys occurring in any task's batch
BatchHashes == UNION {Hashes(outcome[k].artifacts) : k \in Tasks}

\* C4: if every query succeeds, the fan-out returns a nil error and a list
\* with exactly one element for each identity occurring in any task's batch.
C4_SuccessUnion ==
    (layer = "fan" /\ mpc = "done" /\ AllQueriesSucceed) =>
        /\ fret.err = NoErr
        /\ ~fret.nilList
        /\ Hashes(fret.artifacts) = BatchHashes
        /\ Len(fret.artifacts) = Cardinality(BatchHashes)

\* three tasks with two artifacts each, all different: six are returned
C4_Witness ==
    /\ layer = "fan" /\ mpc = "done"
    /\ Len(data) = 3
    /\ \A k \in Tasks : outcome[k].artifacts = ownBatch(k)
    /\ fret.err = NoErr
    /\ Len(fret.artifacts) = 6

\* C5: if some query fails, the fan-out returns the error of a failing task
\* and a nil list, whatever was merged before.
C5_ErrorWins ==
    (layer = "fan" /\ mpc = "done" /\ ~AllQueriesSucceed) =>
        /\ fret.err # NoErr
        /\ \E k \in Tasks : outcome[k].err = fret.err
        /\ fret.nilList
        /\ fret.artifacts = <<>>

\* the error arrived after two batches had been merged
C5_Witness ==
    /\ layer = "fan" /\ mpc = "done"
    /\ Len(data) = 3
    /\ Len(recvd) = 3
    /\ outcome[recvd[3]].err # NoErr
    /\ Len(result.data) = 4
    /\ fret.err = outcome[recvd[3]].err

\* C7: with an empty key list the fan-out returns an empty result and no
\* error, starts no task and never calls query.
C7_EmptyKeys ==
    (layer = "fan" /\ data = <<>>) =>
        /\ spawned = 0
        /\ calls = <<>>
        /\ wpc = <<>>
        /\ mpc = "done" => (fret.err = NoErr /\ fret.artifacts = <<>>)

\* the fan-out over no keys returned
C7_Witness ==
    /\ layer = "fan" /\ data = <<>> /\ mpc = "done"
    /\ fret.err = NoErr /\ spawned = 0

----------------------------------------------------------------------------
(* Claims about the nexus layer *)

\* an artifact of a page that the POM rule keeps under any reading of it: one
\* that is no POM, or any artifact when the filter has neither p nor c
MustKeep(a, f) == a.Extension # pom \/ ({"p", "c"} \cap DOMAIN f = {})

\* every artifact to keep of every page the crawl fetched is in its result
CrawlComplete(fr) ==
    \A k \in 1..Len(fr.pages) :
        \A a \in Range(extractArtifactsFrom(fr.pages[k])) :
            MustKeep(a, fr.params) => hash(a) \in Hashes(fr.ret.artifacts)

\* every task was started, its call returned without error and the artifacts
\* it returned are in the fan-out's result
FanComplete(f) ==
    /\ frames[f].spawned = Len(frames[f].data)
    /\ \A k \in 1..Len(frames[f].data) :
           /\ Running(Append(f, k))
           /\ frames[Append(f, k)].pc = "done"
           /\ frames[Append(f, k)].ret.err = NoErr
           /\ Hashes(frames[Append(f, k)].ret.artifacts)
                  \subseteq Hashes(frames[f].ret.artifacts)

Complete(f) ==
    CASE frames[f].kind = "fetchArtifactsWhere" -> CrawlComplete(frames[f])
      [] frames[f].kind = "Artifacts" ->
             /\ frames[Callee].pc = "done"
             /\ frames[Callee].ret.err = NoErr
             /\ Hashes(frames[Callee].ret.artifacts)
                    \subseteq Hashes(frames[f].ret.artifacts)
      [] OTHER -> FanComplete(f)

\* C6: at every layer a call returns a list with a nil error, holding the
\* artifacts of every page and of every call made below it, or a nil list
\* with an error.
C6_CompleteOrError ==
    layer = "nexus" =>
        \A f \in DOMAIN frames :
            frames[f].pc = "done" =>
                \/ /\ frames[f].ret.err = NoErr
                   /\ ~frames[f].ret.nilList
                   /\ Complete(f)
                \/ /\ frames[f].ret.err # NoErr
                   /\ frames[f].ret.nilList
                   /\ frames[f].ret.artifacts = <<>>

\* Artifacts returned the artifacts of both repositories, found by three
\* crawls below two repository expansions
C6_Witness ==
    /\ layer = "nexus"
    /\ frames[Top].pc = "done"
    /\ route(frames[Top].params) = "fetchAllArtifacts"
    /\ frames[Top].ret.err = NoErr
    /\ Len(frames[Top].ret.artifacts) = 5
    /\ Len(frames[<<1, 1, 1>>].pages) = 3

----------------------------------------------------------------------------
(* Claims about the POM rule and about failures of a crawl *)

RECURSIVE WithoutPoms(_)
\* the artifacts of list whose extension is not "pom", in order
WithoutPoms(list) ==
    IF list = <<>> THEN <<>>
    ELSE (IF Head(list).Extension = pom THEN <<>> ELSE <<Head(list)>>)
         \o WithoutPoms(Tail(list))

PackagingNotPom ==
    "p" \in DOMAIN filter /\ filter["p"] # <<>> /\ filter["p"] # pom

\* C11: with a packaging other than "pom" in the filter, the POM filter
\* returns exactly the artifacts of the page that are no POMs, in order.
C11_PackagingRemovesAllPoms ==
    (layer = "crawl" /\ PackagingNotPom) =>
        \A k \in 1..Len(kept) :
            kept[k] = WithoutPoms(extractArtifactsFrom(pages[k]))

\* C12: with a classifier key in the filter, whatever its value, no POM is
\* left in what the POM filter returns.
C12_ClassifierRemovesAllPoms ==
    (layer = "crawl" /\ "c" \in DOMAIN filter) =>
        \A k \in 1..Len(kept) :
            \A n \in 1..Len(kept[k]) : kept[k][n].Extension # pom

\* C13: without a classifier, and without a packaging or with the packaging
\* "pom", the POM filter returns the page's artifacts unchanged.
C13_NoRuleNoRemoval ==
    (/\ layer = "crawl"
     /\ "c" \notin DOMAIN filter
     /\ "p" \notin DOMAIN filter \/ filter["p"] = pom) =>
        \A k \in 1..Len(kept) : kept[k] = extractArtifactsFrom(pages[k])

\* packaging "pom": a page with a jar and its POM keeps both
C13_Witness ==
    /\ layer = "crawl"
    /\ "p" \in DOMAIN filter /\ filter["p"] = pom
    /\ Len(kept) = 1
    /\ pages[1].Data = <<groupJarPom>>
    /\ Len(kept[1]) = 2
    /\ kept[1][2].Extension = pom

\* C14: when a fetch, body read or decoding fails, the crawl returns that
\* error and a nil list, and the failed fetch is its last one.
C14_FailureAborts ==
    layer = "crawl" =>
        /\ failure # NoErr =>
               /\ cpc = "done"
               /\ cret.err = failure
               /\ cret.nilList /\ cret.artifacts = <<>>
               /\ Len(sent) = Len(pages) + 1
        /\ (cpc = "done" /\ cret.err # NoErr) => failure = cret.err

\* the third fetch failed after two pages had put artifacts in the set
C14_Witness ==
    /\ layer = "crawl" /\ cpc = "done"
    /\ failure = Error("decode failed", 0)
    /\ Len(pages) = 2 /\ Len(sent) = 3
    /\ Len(artifacts.data) >= 3
    /\ cret.nilList

----------------------------------------------------------------------------
(* Claims about Artifacts and the two expansions *)

\* the calls made by call f
Children(f) ==
    {g \in DOMAIN frames : Len(g) = Len(f) + 1 /\ SubSeq(g, 1, Len(f)) = f}

\* the names of the entries of a content listing that are directories
NonLeafNames(entries) ==
    LET dirs == SelectSeq(entries, LAMBDA e : ~e.Leaf)
    IN  [k \in 1..Len(dirs) |-> dirs[k].Text]

\* how often a occurs in list
Occurrences(a, list) == Cardinality({n \in 1..Len(list) : list[n] = a})

\* the call's listing succeeded
Listed(f) == frames[f].pc # "list" /\ frames[f].failure = NoErr

\* C15: Artifacts with no parameters calls fetchAllArtifacts; with the one
\* parameter repositoryId it calls fetchArtifactsFrom for that id; with any
\* other parameters it makes one call of fetchArtifactsWhere with these
\* parameters as filter, and that call expands nothing.
C15_Dispatch ==
    layer = "nexus" =>
        LET p == frames[Top].params
        IN  /\ frames[Top].pc = "call" => DOMAIN frames = {Top}
            /\ frames[Top].pc # "call" =>
                 /\ Children(Top) = {Callee}
                 /\ DOMAIN p = {} =>
                        frames[Callee].kind = "fetchAllArtifacts"
                 /\ DOMAIN p = {"repositoryId"} =>
                        /\ frames[Callee].kind = "fetchArtifactsFrom"
                        /\ frames[Callee].repositoryId = p["repositoryId"]
                 /\ (DOMAIN p # {} /\ DOMAIN p # {"repositoryId"}) =>
                        /\ frames[Callee].kind = "fetchArtifactsWhere"
                        /\ Children(Callee) = {}
                        /\ DOMAIN frames[Callee].params \ {"from"} = DOMAIN p
                        /\ \A k \in DOMAIN p : frames[Callee].params[k] = p[k]

\* two parameters, one of them repositoryId: a single crawl answered the call
C15_Witness ==
    /\ layer = "nexus"
    /\ DOMAIN frames[Top].params = {"repositoryId", "c"}
    /\ frames[Top].pc = "done"
    /\ frames[Callee].kind = "fetchArtifactsWhere"
    /\ Len(frames[Callee].sent) = 2
    /\ DOMAIN frames = {Top, Callee}

\* C16: a repository expansion whose directories' searches overlap returns
\* each artifact that one of its crawls returned exactly once, in whatever
\* order the crawls complete.
C16_OverlapOnce ==
    layer = "nexus" =>
        \A f \in DOMAIN frames :
            (/\ frames[f].kind = "fetchArtifactsFrom"
             /\ frames[f].pc = "done" /\ frames[f].ret.err = NoErr) =>
                \A g \in Children(f) :
                    \A a \in Range(frames[g].ret.artifacts) :
                        Occurrences(a, frames[f].ret.artifacts) = 1

\* the crawl of co* completed before the crawl of c*, and both returned the
\* jar of co.f
C16_Witness ==
    /\ layer = "nexus"
    /\ frames[Top].params = [k \in {"repositoryId"} |-> repoR]
    /\ {Callee, <<1, 1>>, <<1, 2>>} \subseteq DOMAIN frames
    /\ frames[Callee].pc = "done" /\ frames[Callee].ret.err = NoErr
    /\ frames[Callee].recvd = <<2, 1>>
    /\ \E a \in Range(frames[<<1, 1>>].ret.artifacts) :
           /\ a \in Range(frames[<<1, 2>>].ret.artifacts)
           /\ a.GroupID = <<"c", "o", ".", "f">>
           /\ a.Extension = jar

\* C17: a repository expansion starts one crawl for each directory name of
\* the listing, with the filter {g: name*, repositoryId: repo}, and its
\* result holds what these crawls returned.
C17_OneCrawlPerDirectory ==
    layer = "nexus" =>
        \A f \in DOMAIN frames :
            frames[f].kind = "fetchArtifactsFrom" =>
                LET fr    == frames[f]
                    names == NonLeafNames(world.content[fr.repositoryId])
                IN  /\ ~Listed(f) => Children(f) = {}
                    /\ Listed(f) =>
                         /\ fr.data = names
                         /\ Children(f) = {Append(f, k) : k \in 1..fr.spawned}
                         /\ fr.spawned <= Len(names)
                         /\ fr.pc \in {"reduce", "done"} =>
                                fr.spawned = Len(names)
                         /\ \A k \in 1..fr.spawned :
                              LET ch == frames[Append(f, k)]
                              IN  /\ ch.kind = "fetchArtifactsWhere"
                                  /\ DOMAIN ch.params \ {"from"}
                                         = {"g", "repositoryId"}
                                  /\ ch.params["g"] = names[k] \o <<"*">>
                                  /\ ch.params["repositoryId"]
                                         = fr.repositoryId
                         /\ (fr.pc = "done" /\ fr.ret.err = NoErr) =>
                              /\ Range(fr.recvd) = 1..Len(names)
                              /\ Hashes(fr.ret.artifacts) =
                                   UNION {Hashes(frames[g].ret.artifacts) :
                                              g \in Children(f)}

\* the expansion of repository r waits for its two crawls, of c* and of co*
C17_Witness ==
    /\ layer = "nexus"
    /\ Running(Callee)
    /\ frames[Callee].kind = "fetchArtifactsFrom"
    /\ frames[Callee].repositoryId = repoR
    /\ frames[Callee].pc = "reduce"
    /\ Children(Callee) = {<<1, 1>>, <<1, 2>>}
    /\ frames[<<1, 1>>].params["g"] = <<"c", "*">>
    /\ frames[<<1, 2>>].params["g"] = <<"c", "o", "*">>
    /\ frames[<<1, 2>>].pc = "done"

\* the artifacts the search service holds for repository repo in groups whose
\* groupId starts with one of names
ArtifactsUnder(names, repo) ==
    UNION {UNION {{Artifact(gr.GroupId, gr.ArtifactId, gr.Version,
                            l.Classifier, l.Extension, h.RepositoryId) :
                       l \in Range(h.ArtifactLinks)} :
                  h \in {x \in Range(gr.ArtifactHits) :
                            x.RepositoryId = repo}} :
           gr \in {x \in Range(world.groups) :
                     \E d \in Range(names) : IsPrefix(d, x.GroupId)}}

\* C18: a repository expansion that succeeds returns every artifact of the
\* repository whose groupId starts with one of its first-level directory
\* names.
C18_FullCoverage ==
    layer = "nexus" =>
        \A f \in DOMAIN frames :
            (/\ frames[f].kind = "fetchArtifactsFrom"
             /\ frames[f].pc = "done" /\ frames[f].ret.err = NoErr) =>
                ArtifactsUnder(NonLeafNames(world.content[frames[f].repositoryId]),
                               frames[f].repositoryId)
                    \subseteq Range(frames[f].ret.artifacts)

\* below an instance expansion, the expansion of repository r returned its
\* three artifacts, the crawl of c* having fetched three pages
C18_Witness ==
    /\ layer = "nexus"
    /\ {<<1, 1>>, <<1, 1, 1>>} \subseteq DOMAIN frames
    /\ frames[<<1, 1>>].kind = "fetchArtifactsFrom"
    /\ frames[<<1, 1>>].repositoryId = repoR
    /\ frames[<<1, 1>>].pc = "done" /\ frames[<<1, 1>>].ret.err = NoErr
    /\ Len(frames[<<1, 1, 1>>].pages) = 3
    /\ Cardinality(ArtifactsUnder(frames[<<1, 1>>].data, repoR)) = 3

\* C19: an instance expansion starts one repository expansion for each
\* repository of the listing, all running at once, and on success returns
\* every artifact they returned, each once.
C19_InstanceExpansion ==
    layer = "nexus" =>
        \A f \in DOMAIN frames :
            frames[f].kind = "fetchAllArtifacts" =>
                LET fr == frames[f]
                IN  /\ ~Listed(f) => Children(f) = {}
                    /\ Listed(f) =>
                         /\ fr.data = [k \in 1..Len(world.repos) |->
                                          world.repos[k].Id]
                         /\ Children(f) = {Append(f, k) : k \in 1..fr.spawned}
                         /\ fr.pc \in {"reduce", "done"} =>
                                fr.spawned = Len(world.repos)
                         /\ \A k \in 1..fr.spawned :
                              /\ frames[Append(f, k)].kind
                                     = "fetchArtifactsFrom"
                              /\ frames[Append(f, k)].repositoryId
                                     = world.repos[k].Id
                         /\ (fr.pc = "done" /\ fr.ret.err = NoErr) =>
                              /\ Range(fr.ret.artifacts) =
                                   UNION {Range(frames[g].ret.artifacts) :
                                              g \in Children(f)}
                              /\ \A a \in Range(fr.ret.artifacts) :
                                     Occurrences(a, fr.ret.artifacts) = 1

\* the expansions of both repositories are waiting for crawls at once
C19_Witness ==
    /\ layer = "nexus"
    /\ {Callee, <<1, 1>>, <<1, 2>>, <<1, 1, 1>>, <<1, 2, 1>>}
           \subseteq DOMAIN frames
    /\ frames[Callee].kind = "fetchAllArtifacts"
    /\ frames[<<1, 1>>].pc = "reduce" /\ frames[<<1, 2>>].pc = "reduce"
    /\ frames[<<1, 1, 1>>].pc = "loop" /\ Len(frames[<<1, 1, 1>>].pages) = 1
    /\ frames[<<1, 2, 1>>].pc = "loop" /\ Len(frames[<<1, 2, 1>>].pages) = 1

\* C20: an expansion whose listing fails returns the listing's error and no
\* artifacts, and has started no task and no crawl.
C20_ListingFailure ==
    layer = "nexus" =>
        \A f \in DOMAIN frames :
            frames[f].failure # NoErr =>
                /\ frames[f].kind \in {"fetchAllArtifacts", "fetchArtifactsFrom"}
                /\ frames[f].pc = "done"
                /\ frames[f].ret.err = frames[f].failure
                /\ frames[f].ret.nilList /\ frames[f].ret.artifacts = <<>>
                /\ frames[f].spawned = 0 /\ frames[f].task = <<>>
                /\ Children(f) = {}

\* the directory listing of a repository expansion failed while decoding and
\* Artifacts returned that error
C20_Witness ==
    /\ layer = "nexus"
    /\ Running(Callee)
    /\ frames[Callee].kind = "fetchArtifactsFrom"
    /\ frames[Callee].failure = Error("listing undecodable", 0)
    /\ frames[Top].pc = "done"
    /\ frames[Top].ret = Returned(<<>>, TRUE, Error("listing undecodable", 0))
    /\ DOMAIN frames = {Top, Callee}

----------------------------------------------------------------------------
(* Claims about fetch, cleanSlashes and BuildFullURL *)

\* fetch received a response
Responded == layer = "fetch" /\ fpc = "done" /\ response # NoResponse

BadResponse ==
    /\ fres.err.kind = "BadResponseError"
    /\ fres.err.origin.StatusCode = response.StatusCode
    /\ fres.err.origin.Status = response.Status

\* C21 as stated: status 401 gives the authorization error, every other
\* status outside 200..299 a bad-response error with the status code and
\* text, only a status in 200..299 a success, and an error comes with no
\* response.
C21_Non2xxIsError ==
    Responded =>
        /\ response.StatusCode = 401 => fres.err.kind = "credentials.Error"
        /\ (response.StatusCode \notin 200..299 /\ response.StatusCode # 401)
               => BadResponse
        /\ fres.err = NoErr => response.StatusCode \in 200..299
        /\ fres.err # NoErr => fres.nilResponse

\* C21, amended: status 401 gives the authorization error, every other
\* status in 400..599 a bad-response error with the status code and text,
\* every status outside 400..599 a success with the response, and an error
\* comes with no response.
C21_ErrorsAre4xx5xx ==
    /\ Responded =>
        /\ response.StatusCode = 401 =>
               fres = Fetched(NoResponse, TRUE, CredentialsError(fullUrl.url))
        /\ response.StatusCode \in (400..599) \ {401} =>
               BadResponse /\ fres.err.origin.Url = host
        /\ response.StatusCode \notin 400..599 =>
               fres = Fetched(response, FALSE, NoErr)
    /\ (layer = "fetch" /\ fpc = "done" /\ fres.err # NoErr) =>
           fres.nilResponse /\ fres.response = NoResponse

\* a response with status 304 was returned as a success
C21_Witness ==
    /\ Responded
    /\ response.StatusCode = 304
    /\ fres.err = NoErr /\ ~fres.nilResponse
    /\ fres.response.Body = <<"b">>

\* url has the form scheme://rest: a scheme of one or more characters other
\* than ":", then "://", then one or more characters
HasScheme(url) ==
    \E c \in 2..(Len(url) - 3) :
        /\ SubSeq(url, c, c + 2) = <<":", "/", "/">>
        /\ \A j \in 1..(c - 1) : url[j] # ":"

\* str without every slash that follows a slash
Squeezed(str) ==
    LET keep == {k \in 1..Len(str) :
                    ~(str[k] = "/" /\ k > 1 /\ str[k - 1] = "/")}
        nth(n) == CHOOSE k \in keep : Cardinality({j \in keep : j <= k}) = n
    IN  [n \in 1..Cardinality(keep) |-> str[nth(n)]]

\* what the claim says cleanSlashes returns for url
Expected(url) ==
    IF HasScheme(url)
    THEN LET c == CHOOSE k \in 1..Len(url) :
                      SubSeq(url, k, k + 2) = <<":", "/", "/">>
         IN  Cleaned(SubSeq(url, 1, c + 2)
                         \o Squeezed(SubSeq(url, c + 3, Len(url))), NoErr)
    ELSE Cleaned(<<>>, MalformedURLError(url))

\* host/path, or host/path?k=v&... with the keys in the given order
Joined(order) ==
    host \o <<"/">> \o path
    \o (IF order = <<>> THEN <<>> ELSE <<"?">>)
    \o Join([n \in 1..Len(order) |->
                (IF n > 1 THEN <<"&">> ELSE <<>>)
                \o keyChars(order[n]) \o <<"=">> \o query[order[n]]])

\* C25: cleanSlashes returns a URL of the form scheme://rest with every run
\* of slashes after :// collapsed into one slash and no error, returns its
\* own output unchanged, and returns "" and a MalformedURLError for any other
\* URL; BuildFullURL returns what cleanSlashes returns for the URL it built.
C25_CleanSlashes ==
    layer = "fetch" =>
        /\ Len(cleaned) >= 1 => cleaned[1] = Expected(host)
        /\ Len(cleaned) = 2 => cleaned[2] = cleaned[1]
        /\ fpc \in {"do", "done"} =>
               \E order \in Orders(query) : fullUrl = Expected(Joined(order))

\* four slashes after the scheme became three, and stayed three
C25_Witness ==
    /\ layer = "fetch"
    /\ host = <<"h", ":", "/", "/", "/", "/">>
    /\ Len(cleaned) = 2
    /\ cleaned[1] = Cleaned(<<"h", ":", "/", "/", "/">>, NoErr)

----------------------------------------------------------------------------
(* Claims about search criteria *)

\* Parameters() has returned
Produced == layer = "search" /\ spc \in {"params", "routed"}

\* C22: the parameters of InRepository{repo, inner} are the parameters of
\* inner with the key repositoryId set to repo, also when inner has that key.
C22_InRepositoryParameters ==
    (Produced /\ criteria.type = "InRepository") =>
        LET inner == Parameters(criteria.Criteria)
        IN  /\ DOMAIN produced = DOMAIN inner \cup {"repositoryId"}
            /\ produced["repositoryId"] = criteria.RepositoryId
            /\ \A k \in DOMAIN inner \ {"repositoryId"} :
                   produced[k] = inner[k]

\* InRepository{r, ByRepository(s)} produced repositoryId = r
C22_Witness ==
    /\ Produced
    /\ criteria = InRepository(repoR, ByRepository(repoS))
    /\ produced = [k \in {"repositoryId"} |-> repoR]

\* C23: InRepository{r, None} has the parameters of ByRepository(r), and
\* Artifacts calls fetchArtifactsFrom for both.
C23_InRepositoryOfNone ==
    /\ (Produced /\ criteria.type = "InRepository"
            /\ criteria.Criteria = None) =>
           /\ produced = Parameters(ByRepository(criteria.RepositoryId))
           /\ spc = "routed" => routed = "fetchArtifactsFrom"
    /\ (Produced /\ criteria.type = "ByRepository") =>
           /\ produced = Parameters(InRepository(criteria.value, None))
           /\ spc = "routed" => routed = "fetchArtifactsFrom"

\* InRepository{"", None} was routed to the repository expansion
C23_Witness ==
    /\ layer = "search" /\ spc = "routed"
    /\ criteria = InRepository(<<>>, None)
    /\ produced = [k \in {"repositoryId"} |-> <<>>]
    /\ routed = "fetchArtifactsFrom"

\* the key of each field of ByCoordinates
CoordinateKeys ==
    [GroupId |-> "g", ArtifactId |-> "a", Version |-> "v", Packaging |-> "p",
     Classifier |-> "c"]

\* C24: the parameters of a ByCoordinates have a key exactly for the fields
\* that are not empty, with the field's value; none if no field is set.
C24_OnlyGivenFields ==
    (Produced /\ criteria.type = "ByCoordinates") =>
        /\ DOMAIN produced =
               {CoordinateKeys[fld] : fld \in {x \in DOMAIN CoordinateKeys :
                                                  criteria[x] # <<>>}}
        /\ \A fld \in DOMAIN CoordinateKeys :
               criteria[fld] # <<>> =>
                   produced[CoordinateKeys[fld]] = criteria[fld]

\* ByCoordinates{GroupId: x, ArtifactId: x} produced exactly g and a
C24_Witness ==
    /\ Produced
    /\ criteria = ByCoordinates(<<"x">>, <<"x">>, <<>>, <<>>, <<>>)
    /\ DOMAIN produced = {"g", "a"}

----------------------------------------------------------------------------
(* Claims about the tasks and the reducer of the fan-out *)

Sending == {"send errors", "send artifacts"}

\* the tasks whose query has returned
Queried == {k \in Tasks : wpc[k] \in Sending \cup {"done"}}

\* the reducer has received an error
ErrorReceived ==
    \E n \in 1..Len(recvd) : outcome[recvd[n]].err # NoErr

\* C26: the fan-out starts one task for each element of the key list,
\* duplicates included, and each task calls query once, with its own key.
C26_OneTaskPerKey ==
    layer = "fan" =>
        /\ {k \in Tasks : wpc[k] # "not started"} = 1..spawned
        /\ spawned <= Len(data)
        /\ mpc \in {"reduce", "done"} => spawned = Len(data)
        /\ \A k \in Tasks :
               calls[k] = IF k \in Queried THEN <<data[k]>> ELSE <<>>

\* three tasks for the keys a, a, b have each called query with their key
C26_Witness ==
    /\ layer = "fan"
    /\ data = <<<<"a">>, <<"a">>, <<"b">>>>
    /\ Queried = {1, 2, 3}
    /\ calls = <<<< <<"a">> >>, << <<"a">> >>, << <<"b">> >>>>

\* C27: a task whose query has returned sends one message: on errors if the
\* query failed, otherwise on artifacts; once delivered it sends nothing
\* more, and the reducer receives from each task at most once.
C27_OneCompletionPerTask ==
    /\ [](layer = "fan" =>
             \A k \in Tasks :
                 /\ wpc[k] = "send errors" => outcome[k].err # NoErr
                 /\ wpc[k] = "send artifacts" => outcome[k].err = NoErr
                 /\ Occurrences(k, recvd) = IF wpc[k] = "done" THEN 1 ELSE 0)
    /\ [][layer = "fan" =>
             \A k \in Tasks :
                 /\ wpc[k] \in Sending => wpc'[k] \in {wpc[k], "done"}
                 /\ wpc[k] = "done" => wpc'[k] = "done"]_vars

\* one task is sending its error while another is sending its batch
C27_Witness ==
    /\ layer = "fan" /\ Len(data) = 2
    /\ wpc[1] = "send errors" /\ wpc[2] = "send artifacts"
    /\ outcome[2].artifacts = ownBatch(2)

\* C28 as stated: the reducer returns only after it has received len(keys)
\* completions.
C28_ReturnsAfterAllCompletions ==
    (layer = "fan" /\ mpc = "done") => Len(recvd) = Len(data)

\* C28, amended: the reducer returns without error only after it has
\* received len(keys) completions, all of them batches; it returns an error
\* on receiving the first failure, after at most len(keys) completions.
C28_SuccessAfterAllCompletions ==
    layer = "fan" =>
        /\ Len(recvd) <= Len(data)
        /\ (mpc = "done" /\ fret.err = NoErr) =>
               /\ Len(recvd) = Len(data)
               /\ \A n \in 1..Len(recvd) : outcome[recvd[n]].err = NoErr
        /\ (mpc = "done" /\ fret.err # NoErr) =>
               /\ outcome[recvd[Len(recvd)]].err # NoErr
               /\ \A n \in 1..(Len(recvd) - 1) : outcome[recvd[n]].err = NoErr

\* of three completions the reducer received one, a failure, and returned
C28_Witness ==
    /\ layer = "fan" /\ mpc = "done"
    /\ Len(data) = 3 /\ Len(recvd) = 1
    /\ fret.err = outcome[recvd[1]].err /\ fret.err # NoErr

\* C29: the reducer returns on the first error it receives, with that error
\* and a nil list; after it has returned it receives nothing and merges
\* nothing, so no second error and no later batch reaches a result.
C29_FirstErrorEnds ==
    /\ [](layer = "fan" /\ ErrorReceived =>
             /\ mpc = "done"
             /\ outcome[recvd[Len(recvd)]].err # NoErr
             /\ \A n \in 1..(Len(recvd) - 1) : outcome[recvd[n]].err = NoErr
             /\ fret = Returned(<<>>, TRUE, outcome[recvd[Len(recvd)]].err))
    /\ [][layer = "fan" /\ mpc = "done" =>
             recvd' = recvd /\ result' = result /\ fret' = fret]_vars

\* the reducer returned the first task's error; the second task is left
\* with its own error and the third with its batch
C29_Witness ==
    /\ layer = "fan" /\ mpc = "done"
    /\ Len(data) = 3 /\ recvd = <<1>>
    /\ fret.err = taskError(1)
    /\ wpc[2] = "send errors" /\ wpc[3] = "send artifacts"
    /\ outcome[3].artifacts = ownBatch(3)

\* the tasks that have not delivered their completion
Undelivered == {k \in Tasks : wpc[k] # "done"}

\* C30: once the reducer has received an error as its k-th completion, the
\* n - k other tasks never deliver theirs: a task that reaches its send
\* stays there.
C30_TasksBlockForever ==
    /\ [](layer = "fan" /\ ErrorReceived =>
             Cardinality(Undelivered) = Len(data) - Len(recvd))
    /\ [][layer = "fan" /\ ErrorReceived =>
             \A k \in Undelivered :
                 /\ wpc'[k] # "done"
                 /\ wpc[k] \in Sending => wpc'[k] = wpc[k]]_vars

\* the error came second of three completions: one task is blocked on its
\* send
C30_Witness ==
    /\ layer = "fan" /\ mpc = "done"
    /\ Len(data) = 3 /\ Len(recvd) = 2
    /\ outcome[recvd[2]].err # NoErr
    /\ Cardinality(Undelivered) = 1
    /\ \A k \in Undelivered : wpc[k] \in Sending

----------------------------------------------------------------------------
(* Claims of the fan-out layer: who touches the accumulating set *)

\* the reducer receives a batch: the one step that calls result.add
ReducerAdds ==
    /\ mpc = "reduce" /\ mpc' = "reduce"
    /\ i' = i + 1
    /\ \E k \in Tasks :
           /\ wpc[k] = "send artifacts" /\ wpc'[k] = "done"
           /\ recvd' = Append(recvd, k)

\* a task moves: it is started, its query returns or its send is received
TaskMoves(k) == wpc'[k] # wpc[k]

\* C31: the accumulating set changes only in a step of the reducing task; no
\* step of a worker task changes it, so the set is the same before and after
\* every task's query, and it is empty until the reducer starts.
C31_OnlyReducerTouchesSet ==
    /\ [](layer = "fan" /\ mpc = "spawn" => result = newArtifactSet)
    /\ [][layer = "fan" =>
             /\ result' # result => ReducerAdds
             /\ \A k \in Tasks :
                    (TaskMoves(k) /\ wpc[k] # "send artifacts") =>
                        result' = result]_vars

\* the reducer has piled up one task's batch while another task, whose query
\* has returned a batch the set does not hold, waits to send it
C31_Witness ==
    /\ layer = "fan" /\ mpc = "reduce"
    /\ result.data # <<>>
    /\ \E k \in Tasks :
           /\ wpc[k] = "send artifacts"
           /\ outcome[k].artifacts # <<>>
           /\ Range(outcome[k].artifacts) \cap Range(result.data) = {}

----------------------------------------------------------------------------
(* Claims of the nexus layer: the filter maps of concurrent crawls *)

\* the fetchArtifactsWhere calls made so far
Crawls == {f \in DOMAIN frames : frames[f].kind = "fetchArtifactsWhere"}

\* crawl f writes filter["from"] and sends its next fetch
WritesFrom(f) ==
    /\ f \in DOMAIN frames'
    /\ Len(frames'[f].sent) = Len(frames[f].sent) + 1

\* C32: no two crawls have the same filter map, so no two concurrently
\* running ones do; "from" is written into a map only in a step of the one
\* crawl that was given it, and a crawl's map changes in no other step.
C32_OwnFilterPerCrawl ==
    /\ [](layer = "nexus" =>
             \A f, g \in Crawls :
                 f # g => frames[f].filter # frames[g].filter)
    /\ [][layer = "nexus" =>
             \A f \in Crawls :
                 /\ WritesFrom(f) =>
                        /\ frames'[f].params =
                               setFrom(frames[f].params, frames'[f].from)
                        /\ \A g \in Crawls \ {f} :
                               /\ frames[g].filter # frames[f].filter
                               /\ frames'[g].params = frames[g].params
                 /\ ~WritesFrom(f) => frames'[f].params = frames[f].params]_vars

\* the crawls of two directories of one repository both wait for a page,
\* one for its second and one for its first, each with the offset it asked
\* for in its own map
C32_Witness ==
    /\ layer = "nexus"
    /\ \E f, g \in Crawls :
           /\ f # g
           /\ SubSeq(f, 1, Len(f) - 1) = SubSeq(g, 1, Len(g) - 1)
           /\ frames[f].pc = "fetch" /\ frames[g].pc = "fetch"
           /\ Len(frames[f].pages) = 1 /\ Len(frames[g].pages) = 0
           /\ Len(frames[f].sent) = 2 /\ Len(frames[g].sent) = 1
           /\ frames[f].params["from"] # frames[g].params["from"]
           /\ frames[f].filter # frames[g].filter

----------------------------------------------------------------------------
(* Claims of the fan-out layer: the completion order *)

\* the orders in which the reducer can receive the completions of all tasks
CompletionOrders ==
    {p \in [Tasks -> Tasks] : \A j, k \in Tasks : j # k => p[j] # p[k]}

RECURSIVE ReducedInOrder(_)
\* the set of a reducer that received the tasks' batches in the given order
ReducedInOrder(order) ==
    IF order = <<>> THEN newArtifactSet
    ELSE reduce(ReducedInOrder(SubSeq(order, 1, Len(order) - 1)),
                outcome[order[Len(order)]].artifacts)

\* C33: when every query succeeds, the list returned holds the same identity
\* keys, as many elements, as the list of a run with the same keys and batches
\* in which the completions arrive in any other order.
C33_OrderIndependent ==
    (layer = "fan" /\ mpc = "done" /\ AllQueriesSucceed) =>
        /\ fret.artifacts = ReducedInOrder(recvd).data
        /\ \A p \in CompletionOrders :
               /\ Hashes(ReducedInOrder(p).data) = Hashes(fret.artifacts)
               /\ Len(ReducedInOrder(p).data) = Len(fret.artifacts)

\* three tasks completed out of key order: the list returned is not the list
\* of the run in key order, and holds the same keys
C33_Witness ==
    /\ layer = "fan" /\ mpc = "done" /\ AllQueriesSucceed
    /\ Len(data) = 3 /\ recvd = <<3, 1, 2>>
    /\ fret.artifacts # ReducedInOrder(<<1, 2, 3>>).data
    /\ Hashes(fret.artifacts) = Hashes(ReducedInOrder(<<1, 2, 3>>).data)
    /\ Len(fret.artifacts) > 2

----------------------------------------------------------------------------
(* Claims of the crawl layer: decoding a page *)

\* the links of a page: <<group, hit, link>>, each counted from 1
LinkPositions(payload) ==
    UNION {UNION {{<<gi, hi, li>> :
                      li \in 1..Len(payload.Data[gi].ArtifactHits[hi]
                                       .ArtifactLinks)} :
                  hi \in 1..Len(payload.Data[gi].ArtifactHits)} :
           gi \in 1..Len(payload.Data)}

\* group, hit, link order
Precedes(s, t) ==
    \/ s[1] < t[1]
    \/ s[1] = t[1] /\ s[2] < t[2]
    \/ s[1] = t[1] /\ s[2] = t[2] /\ s[3] < t[3]

\* the place of link t among the links of the page
Rank(payload, t) ==
    1 + Cardinality({s \in LinkPositions(payload) : Precedes(s, t)})

\* the artifact link t of the page stands for
ArtifactOfLink(payload, t) ==
    LET gr   == payload.Data[t[1]]
        hit  == gr.ArtifactHits[t[2]]
        link == hit.ArtifactLinks[t[3]]
    IN  Artifact(gr.GroupId, gr.ArtifactId, gr.Version, link.Classifier,
                 link.Extension, hit.RepositoryId)

\* the filter names neither a packaging nor a classifier: the list kept of a
\* page is the list decoded from it
Undisturbed == "p" \notin DOMAIN filter /\ "c" \notin DOMAIN filter

\* C34: the list decoded from a page has one artifact for each link, in
\* group, hit, link order, made of the group's groupId, artifactId and
\* version, the hit's repository id and the link's extension and classifier;
\* the next offset is the number of groups, with or without links.
C34_OneArtifactPerLink ==
    layer = "crawl" =>
        /\ Undisturbed =>
               \A k \in 1..Len(kept) :
                   /\ Len(kept[k]) = Cardinality(LinkPositions(pages[k]))
                   /\ \A t \in LinkPositions(pages[k]) :
                          kept[k][Rank(pages[k], t)] =
                              ArtifactOfLink(pages[k], t)
        /\ (cpc = "loop" /\ pages # <<>>) =>
               offset = Len(pages[Len(pages)].Data)

\* a page of a group without links and a group with two hits: three
\* artifacts, the last one of the second repository, and an offset of two
C34_Witness ==
    /\ layer = "crawl" /\ cpc = "loop" /\ Undisturbed
    /\ Len(pages) = 1
    /\ pages[1] = Payload(<<groupNoHits, groupPomPom>>)
    /\ Len(kept[1]) = 3
    /\ kept[1][2].Classifier = <<"s">> /\ kept[1][2].Extension = pom
    /\ kept[1][3].RepositoryID = <<"s">>
    /\ offset = 2

----------------------------------------------------------------------------
(* Claims of the crawl layer: empty filter values *)

\* the filter has the key p with the empty string as its value, and no
\* classifier other than the empty string
EmptyPackaging ==
    /\ "p" \in DOMAIN filter /\ filter["p"] = <<>>
    /\ "c" \in DOMAIN filter => filter["c"] = <<>>

\* C35: with p = "" and no non-empty classifier, every page's list passes
\* the POM filter unchanged, POMs included.
C35_EmptyPackagingKeepsPoms ==
    (layer = "crawl" /\ EmptyPackaging) =>
        \A k \in 1..Len(kept) :
            /\ kept[k] = extractArtifactsFrom(pages[k])
            /\ \A n \in 1..Len(kept[k]) :
                   kept[k][n].Extension = pom =>
                       kept[k][n] \in Range(artifacts.data)

\* p = "" and c = "": a page with two POMs next to each other keeps both
C35_Witness ==
    /\ layer = "crawl" /\ EmptyPackaging /\ "c" \in DOMAIN filter
    /\ Len(kept) = 1
    /\ pages[1] = Payload(<<groupPomPom>>)
    /\ Len(kept[1]) = 3
    /\ kept[1][1].Extension = pom /\ kept[1][2].Extension = pom

----------------------------------------------------------------------------
(* Claims of the crawl layer: the result of a successful crawl *)

RECURSIVE FirstAppearances(_)
\* the elements of list, each once, in order of first appearance
FirstAppearances(list) ==
    IF list = <<>> THEN <<>>
    ELSE LET front == FirstAppearances(SubSeq(list, 1, Len(list) - 1))
             last  == list[Len(list)]
         IN  IF last \in Range(front) THEN front ELSE Append(front, last)

\* C36: a crawl that returns without error returns the artifacts the POM
\* filter left of the pages fetched, each once, in order of first appearance
\* across the pages.
C36_SurvivorsOnceInOrder ==
    (layer = "crawl" /\ cpc = "done" /\ cret.err = NoErr) =>
        cret.artifacts = FirstAppearances(Join(kept))

----------------------------------------------------------------------------
(* Claims of the set layer: the identity key *)

\* C37: two artifacts have the same identity key exactly when their six
\* fields are equal, so every artifact that was added is in the data list.
C37_KeyIffAllFieldsEqual ==
    layer = "set" =>
        /\ \A a, b \in Range(AddedSoFar) : hash(a) = hash(b) <=> a = b
        /\ Range(AddedSoFar) \subseteq Range(set.data)

----------------------------------------------------------------------------
(* Claims of the crawl layer: the offsets of one crawl *)

\* the offset the k-th fetch of the crawl asked for
SentFrom(k) == Atoi(sent[k]["from"])

\* C38: each fetch of a crawl asks for a greater offset than the fetch
\* before it, so no two fetches of the crawl ask for the same offset.
C38_OffsetsStrictlyIncrease ==
    layer = "crawl" =>
        /\ \A k \in 1..(Len(sent) - 1) : SentFrom(k) < SentFrom(k + 1)
        /\ \A j, k \in 1..Len(sent) :
               j # k => sent[j]["from"] # sent[k]["from"]

\* three fetches, after a page of two groups and a page of one: the offsets
\* are 0, 2 and 3
C38_Witness ==
    /\ layer = "crawl"
    /\ Len(sent) = 3 /\ Len(pages) = 2
    /\ Len(pages[1].Data) = 2 /\ Len(pages[2].Data) = 1
    /\ sent[1]["from"] = <<"0">>
    /\ sent[2]["from"] = <<"2">>
    /\ sent[3]["from"] = <<"3">>

----------------------------------------------------------------------------
(* Claims of the fan-out layer: tasks left behind and termination *)

\* C39: when the fan-out has returned without error, every task it started
\* has had its batch received and has ended; none is at a channel send.
C39_SuccessLeavesNoTask ==
    (layer = "fan" /\ mpc = "done" /\ fret.err = NoErr) =>
        /\ spawned = Len(data)
        /\ \A k \in Tasks : wpc[k] = "done" /\ k \in Range(recvd)
        /\ \A k \in Tasks : wpc[k] \notin Sending

\* three tasks, two of them with a batch of two artifacts, all ended when
\* the fan-out returned its list
C39_Witness ==
    /\ layer = "fan" /\ mpc = "done" /\ fret.err = NoErr
    /\ Len(data) = 3
    /\ \A k \in Tasks : wpc[k] = "done"
    /\ outcome[1].artifacts = ownBatch(1)
    /\ outcome[2].artifacts = <<>>
    /\ outcome[3].artifacts = ownBatch(3)
    /\ Len(fret.artifacts) = 4

\* C40: when every query returns and every goroutine that can run does run,
\* the fan-out returns, whatever its tasks' outcomes are.
C40_EventuallyReturns == <>(layer = "fan" /\ mpc = "done")

\* the fan-out has returned the error of its third task after the batch of
\* its second, with the first task's query returned as well
C40_Witness ==
    /\ layer = "fan" /\ mpc = "done"
    /\ Len(data) = 3 /\ recvd = <<2, 3>>
    /\ outcome[2].artifacts = ownBatch(2)
    /\ fret.err = taskError(3)
    /\ wpc[1] = "send artifacts"

=============================================================================
